---- MODULE Spec2Model ----
(***************************************************************************)
(* SignVista inference orchestration (backend/ml/inference.py) with the    *)
(* per-session frame buffers (backend/ml/buffer_manager.py), the module    *)
(* configuration (backend/ml/config_manager.py) and the three classifier   *)
(* modules (backend/ml/modules/*.py).                                      *)
(*                                                                         *)
(* Confidences and thresholds are percentages (0.7 is 70).  None is the    *)
(* word "none" / the prediction NoPrediction.  Face detector, feature      *)
(* extractor, classifiers and model loading are the environment: each      *)
(* call's outcome is an input of the action that makes the call.           *)
(***************************************************************************)
EXTENDS Integers, Sequences, FiniteSets, TLC

VARIABLES
    config_manager,            \* inference._config_manager (exists = FALSE: None)
    isl_modules_initialized,   \* inference._isl_modules_initialized
    modules,                   \* names whose inference._<name>_module is not None
    model_loaded,              \* inference._model_loaded
    buffers,                   \* buffer_manager._buffers: session -> deque of vectors
    prediction_history,        \* DetectionModule.prediction_history (words)
    last,                      \* the last call of predict_from_raw_frame and its result
    selection,                 \* a direct call of select_final_prediction and its result
    frame_no,                  \* number of frames submitted with a numbered vector
    consumed,                  \* session -> the window last classified and cleared
    detection_call,            \* a direct call of DetectionModule.predict and its result
    validation,                \* a direct call of ConfigurationManager.validate and its result
    module_call,               \* a direct call of one module's predict and its result
    merge_call,                \* a direct call of _merge_hand_boxes and its result
    config_version,            \* number of times the configuration was replaced
    pass                       \* a pass of predict_from_raw_frame taken read by read

vars == <<config_manager, isl_modules_initialized, modules, model_loaded,
          buffers, prediction_history, last, selection, frame_no, consumed,
          detection_call, validation, module_call, merge_call,
          config_version, pass>>

\* the records of direct calls and of the pass taken read by read, which the
\* server's own steps leave alone
records ==
    <<selection, frame_no, consumed, detection_call, validation, module_call,
      merge_call, config_version, pass>>

----------------------------------------------------------------------------
(* Bounds of the model *)

\* settings.BUFFER_SIZE (45 by default, from the environment); bounded here
BUFFER_SIZE == 2
\* longest prediction list handed to select_final_prediction directly
MaxPredictions == 3
\* number of frames that carry a numbered vector
MaxFrames == 5

Sessions == {"s1"}
Vectors == {"v1"}
Words == {"A", "B"}

----------------------------------------------------------------------------
(* Program constants *)

ModuleOrder == <<"detection", "recognition", "translation">>
Modules == {ModuleOrder[i] : i \in 1..Len(ModuleOrder)}
Strategies == {"priority", "highest_confidence", "voting", "unknown_strategy"}

KEYPOINT_DIM == 258
POSE_DIM == 99
CONFIDENCE_THRESHOLD == 60
DETECTION_THRESHOLD == 70
RECOGNITION_THRESHOLD == 60
TRANSLATION_THRESHOLD == 70
CLEAR_THRESHOLD == 80
MARGIN == 15
HISTORY_SIZE == 3
MOCK_CONFIDENCE == 95

----------------------------------------------------------------------------
(* Values *)

Pred(m, w, c) == [module_name |-> m, word |-> w, confidence |-> c]
NoPrediction == Pred("none", "none", 0)

DefaultPriorities ==
    [m \in Modules |-> CASE m = "detection" -> 2
                         [] m = "recognition" -> 1
                         [] OTHER -> 3]

PriorityTables ==
    { DefaultPriorities,
      [m \in Modules |-> IF m = "translation" THEN 1 ELSE 2] }

\* confidence_threshold per module: one at the lower, one at the upper level
Thresholds ==
    [m \in Modules |-> IF m = "translation" THEN 90 ELSE 70]

Config(en, th, pr, st, fb) ==
    [exists |-> TRUE, enabled |-> en, threshold |-> th, priority |-> pr,
     prediction_strategy |-> st, fallback_to_existing_lstm |-> fb]

AllConfigs ==
    { Config(en, Thresholds, pr, st, fb) :
        en \in SUBSET Modules, pr \in PriorityTables,
        st \in Strategies, fb \in BOOLEAN }

\* every set of enabled modules with the fallback on or off, under the
\* default strategy and priorities
FallbackConfigs ==
    { c \in AllConfigs : /\ c.prediction_strategy = "priority"
                         /\ c.priority = DefaultPriorities }

\* every set of enabled modules with every strategy; the priorities vary
\* where the strategy reads them
SelectionConfigs ==
    { c \in AllConfigs :
        /\ c.fallback_to_existing_lstm
        /\ c.prediction_strategy # "priority" => c.priority = DefaultPriorities }

NoConfig ==
    [exists |-> FALSE, enabled |-> {}, threshold |-> [m \in Modules |-> 70],
     priority |-> [m \in Modules |-> 1], prediction_strategy |-> "priority",
     fallback_to_existing_lstm |-> FALSE]

----------------------------------------------------------------------------
(* Outcomes of the calls to the environment, per frame *)

\* extract_keypoints: a vector of some dimension, or an exception
KpOutcomes ==
    { [kind |-> "raise", dim |-> 0, vec |-> "v1"] }
    \cup { [kind |-> "vector", dim |-> d, vec |-> v] :
             d \in {KEYPOINT_DIM, POSE_DIM}, v \in Vectors }

KpRaise == CHOOSE k \in KpOutcomes : k.kind = "raise"

Scores(k, w, c, c2) == [kind |-> k, word |-> w, conf |-> c, second |-> c2]

\* a classifier's arg-max word, its probability and the runner-up's
ScoreOutcomes ==
    { Scores("scores", w, c, 50) : w \in Words, c \in {70, 90} }

\* "throw": predict raises past its own handler; "skip": the call is not made
\* "nohand": no landmarks or region; "fail": the classifier call raises
DetOutcomes ==
    { Scores(k, "none", 0, 0) : k \in {"throw", "nohand"} } \cup ScoreOutcomes
RecOutcomes ==
    { Scores(k, "none", 0, 0) : k \in {"throw", "fail"} } \cup ScoreOutcomes
TransOutcomes ==
    { Scores(k, "none", 0, 0) : k \in {"throw", "nohand"} } \cup ScoreOutcomes
LegacyOutcomes ==
    { Scores("fail", "none", 0, 0) }
    \cup { Scores("scores", w, c, 0) : w \in Words, c \in {50, 70} }
Skip == Scores("skip", "none", 0, 0)

----------------------------------------------------------------------------
(* buffer_manager.py *)

\* a list without maxlen: nothing is ever dropped
FrameBufferAppend_Unbounded(q, kp) ==
    IF kp.dim # KEYPOINT_DIM THEN q ELSE Append(q, kp.vec)

\* a full buffer refuses the new vector instead of evicting its oldest
FrameBufferAppend_DropNewest(q, kp) ==
    IF kp.dim # KEYPOINT_DIM THEN q
    ELSE IF Len(q) >= BUFFER_SIZE THEN q
    ELSE Append(q, kp.vec)

\* the size of the vector is not looked at
FrameBufferAppend_AnySize(q, kp) ==
    IF Len(q) >= BUFFER_SIZE THEN Append(Tail(q), kp.vec)
    ELSE Append(q, kp.vec)

FrameBufferAppend(q, kp) ==
    IF kp.dim # KEYPOINT_DIM THEN q
    ELSE IF Len(q) >= BUFFER_SIZE THEN Append(Tail(q), kp.vec)
    ELSE Append(q, kp.vec)

is_ready(q) == Len(q) >= BUFFER_SIZE

\* get_sequence: None unless ready, else the vectors oldest first (as one
\* (1, N, D) array)
NotReady == [ready |-> FALSE, vectors |-> <<>>]
get_sequence(q) ==
    IF ~is_ready(q) THEN NotReady ELSE [ready |-> TRUE, vectors |-> q]

\* get_sequence copies the deque and leaves it as it was
BufferAfterGetSequence(q) == q

\* int(buffer.fill_ratio * 100)
FillPercent(q) == (Len(q) * 100) \div BUFFER_SIZE

get_buffer(bufs, s) ==
    IF s \in DOMAIN bufs THEN bufs ELSE bufs @@ (s :> <<>>)

\* clearing one session clears every session's window
clear_buffer_All(bufs, s) ==
    IF s \in DOMAIN bufs THEN [t \in DOMAIN bufs |-> <<>>] ELSE bufs

clear_buffer(bufs, s) ==
    IF s \in DOMAIN bufs THEN [bufs EXCEPT ![s] = <<>>] ELSE bufs

\* _buffers.pop(session_id, None)
delete_buffer(bufs, s) ==
    [t \in DOMAIN bufs \ {s} |-> bufs[t]]

\* the deque of session s, empty when the session has no buffer
BufferOf(bufs, s) == IF s \in DOMAIN bufs THEN bufs[s] ELSE <<>>

----------------------------------------------------------------------------
(* modules/detection.py, modules/recognition.py, modules/translation.py *)

ModuleResult(p, bufs, hist, t) ==
    [pred |-> p, buffers |-> bufs, history |-> hist, threw |-> t]

\* the rolling history after one more accepted word
PushHistory(hist, w) ==
    LET h == Append(hist, w)
    IN  IF Len(h) > HISTORY_SIZE THEN Tail(h) ELSE h

\* no history is ever found inconsistent
Inconsistent_Never(h) == FALSE

\* the two most recent words of the history disagree
Inconsistent(h) ==
    Len(h) >= 2 /\ h[Len(h)] # h[Len(h) - 1]

\* the margin between the two best classes is not looked at
DetectionPredict_NoMargin(bufs, hist, d) ==
    IF d.kind = "throw" THEN ModuleResult(NoPrediction, bufs, hist, TRUE)
    ELSE IF d.kind # "scores" THEN ModuleResult(NoPrediction, bufs, hist, FALSE)
    ELSE IF d.conf < DETECTION_THRESHOLD
         THEN ModuleResult(NoPrediction, bufs, hist, FALSE)
    ELSE LET h == PushHistory(hist, d.word)
         IN  IF Inconsistent(h)
             THEN ModuleResult(NoPrediction, bufs, h, FALSE)
             ELSE ModuleResult(Pred("detection", d.word, d.conf), bufs, h, FALSE)

DetectionPredict(bufs, hist, d) ==
    IF d.kind = "throw" THEN ModuleResult(NoPrediction, bufs, hist, TRUE)
    ELSE IF d.kind # "scores" THEN ModuleResult(NoPrediction, bufs, hist, FALSE)
    ELSE IF d.conf - d.second < MARGIN
         THEN ModuleResult(NoPrediction, bufs, hist, FALSE)
    ELSE IF d.conf < DETECTION_THRESHOLD
         THEN ModuleResult(NoPrediction, bufs, hist, FALSE)
    ELSE LET h == PushHistory(hist, d.word)
         IN  IF Inconsistent(h)
             THEN ModuleResult(NoPrediction, bufs, h, FALSE)
             ELSE ModuleResult(Pred("detection", d.word, d.conf), bufs, h, FALSE)

\* every prediction clears the buffer
should_clear_buffer_Always(confidence) == TRUE

\* a confidence equal to the clear threshold does not clear
should_clear_buffer_Strict(confidence) == confidence > CLEAR_THRESHOLD

should_clear_buffer(confidence) == confidence >= CLEAR_THRESHOLD

RecognitionPredict(bufs, hist, s, kp, r) ==
    IF r.kind = "throw" THEN ModuleResult(NoPrediction, bufs, hist, TRUE)
    ELSE IF kp.kind = "raise" \/ kp.dim # KEYPOINT_DIM
         THEN ModuleResult(NoPrediction, bufs, hist, FALSE)
    ELSE LET b1 == get_buffer(bufs, s)
             b2 == [b1 EXCEPT ![s] = FrameBufferAppend(b1[s], kp)]
         IN  IF ~is_ready(b2[s]) THEN ModuleResult(NoPrediction, b2, hist, FALSE)
             ELSE IF r.kind # "scores" THEN ModuleResult(NoPrediction, b2, hist, FALSE)
             ELSE IF r.conf < RECOGNITION_THRESHOLD
                  THEN ModuleResult(NoPrediction, b2, hist, FALSE)
             ELSE ModuleResult(Pred("recognition", r.word, r.conf),
                               IF should_clear_buffer(r.conf)
                               THEN clear_buffer(b2, s) ELSE b2,
                               hist, FALSE)

\* predict without its try/except: a classifier that raises is not caught
TranslationPredict_Uncaught(bufs, hist, t) ==
    IF t.kind \in {"throw", "fail"} THEN ModuleResult(NoPrediction, bufs, hist, TRUE)
    ELSE IF t.kind # "scores" THEN ModuleResult(NoPrediction, bufs, hist, FALSE)
    ELSE IF t.conf < TRANSLATION_THRESHOLD
         THEN ModuleResult(NoPrediction, bufs, hist, FALSE)
    ELSE ModuleResult(Pred("translation", t.word, t.conf), bufs, hist, FALSE)

TranslationPredict(bufs, hist, t) ==
    IF t.kind = "throw" THEN ModuleResult(NoPrediction, bufs, hist, TRUE)
    ELSE IF t.kind # "scores" THEN ModuleResult(NoPrediction, bufs, hist, FALSE)
    ELSE IF t.conf < TRANSLATION_THRESHOLD
         THEN ModuleResult(NoPrediction, bufs, hist, FALSE)
    ELSE ModuleResult(Pred("translation", t.word, t.conf), bufs, hist, FALSE)

----------------------------------------------------------------------------
(* config_manager.py *)

is_module_enabled(cm, m) == m \in cm.enabled
get_confidence_threshold(cm, m) == cm.threshold[m]
get_module_priority(cm, m) == cm.priority[m]
get_prediction_strategy(cm) == cm.prediction_strategy

\* the face gate is switched off
require_face_Off(cm) == FALSE

\* getattr(_config_manager.config, 'require_face_detection', True): the
\* configuration dataclass has no such field, so the default always applies
require_face(cm) == TRUE

\* [name for name in [...] if is_module_enabled(name)]
EnabledModules(cm) ==
    SelectSeq(ModuleOrder, LAMBDA m : is_module_enabled(cm, m))

InSeq(x, seq) == \E i \in 1..Len(seq) : seq[i] = x

----------------------------------------------------------------------------
(* inference.execute_modules_parallel *)

\* a prediction exactly at the threshold is dropped
PassesThreshold_Strict(cm, p) ==
    p.confidence > get_confidence_threshold(cm, p.module_name)

\* the threshold gate on one module's prediction
PassesThreshold(cm, p) ==
    p.confidence >= get_confidence_threshold(cm, p.module_name)

\* a raising module ends the fan-out: no later module runs
RunModule_NoIsolation(cm, mods, acc, m, res) ==
    IF ~(InSeq(m, acc.enabled) /\ m \in mods) \/ acc.threw # {} THEN acc
    ELSE [acc EXCEPT
            !.buffers = res.buffers,
            !.history = res.history,
            !.invoked = @ \cup {m},
            !.threw = IF res.threw THEN @ \cup {m} ELSE @,
            !.returned = [@ EXCEPT ![m] = res.pred],
            !.predictions =
                IF res.pred # NoPrediction /\ PassesThreshold(cm, res.pred)
                THEN Append(@, res.pred) ELSE @]

\* one "Execute <m> module" block: run the module if it is in the list and
\* has an instance, isolate its exception, gate its prediction
RunModule(cm, mods, acc, m, res) ==
    IF ~(InSeq(m, acc.enabled) /\ m \in mods) THEN acc
    ELSE [acc EXCEPT
            !.buffers = res.buffers,
            !.history = res.history,
            !.invoked = @ \cup {m},
            !.threw = IF res.threw THEN @ \cup {m} ELSE @,
            !.returned = [@ EXCEPT ![m] = res.pred],
            !.predictions =
                IF res.pred # NoPrediction /\ PassesThreshold(cm, res.pred)
                THEN Append(@, res.pred) ELSE @]

\* the three blocks, each starting from what the previous one left
RunDetection(cm, mods, acc, in) ==
    RunModule(cm, mods, acc, "detection",
              DetectionPredict(acc.buffers, acc.history, in.det))
RunRecognition(cm, mods, acc, s, in) ==
    RunModule(cm, mods, acc, "recognition",
              RecognitionPredict(acc.buffers, acc.history, s, in.kp, in.rec))
RunTranslation(cm, mods, acc, in) ==
    RunModule(cm, mods, acc, "translation",
              TranslationPredict(acc.buffers, acc.history, in.trans))

execute_modules_parallel(cm, mods, bufs, hist, s, in, enabled_modules) ==
    RunTranslation(cm, mods,
        RunRecognition(cm, mods,
            RunDetection(cm, mods,
                [enabled |-> enabled_modules, buffers |-> bufs, history |-> hist,
                 invoked |-> {}, threw |-> {},
                 returned |-> [m \in Modules |-> NoPrediction],
                 predictions |-> <<>>],
                in),
            s, in),
        in)

----------------------------------------------------------------------------
(* inference.select_final_prediction *)

\* among equal confidences the last prediction wins
MaxByConfidence_Last(preds) ==
    preds[CHOOSE i \in 1..Len(preds) :
            \A j \in 1..Len(preds) :
                \/ preds[j].confidence < preds[i].confidence
                \/ preds[j].confidence = preds[i].confidence /\ j <= i]

\* max(preds, key=confidence): the first prediction of the largest confidence
RECURSIVE MaxByConfidence(_)
MaxByConfidence(preds) ==
    IF Len(preds) = 1 THEN preds[1]
    ELSE LET best == MaxByConfidence(SubSeq(preds, 1, Len(preds) - 1))
             p == preds[Len(preds)]
         IN  IF p.confidence > best.confidence THEN p ELSE best

\* sorted(preds, key=priority): a stable insertion of the last element
RECURSIVE SortedByPriority(_, _)

\* an unstable insertion: the new element goes before its equals
InsertByPriority_Unstable(cm, sorted, p) ==
    LET later == { i \in 1..Len(sorted) :
                     get_module_priority(cm, sorted[i].module_name)
                       >= get_module_priority(cm, p.module_name) }
        k == IF later = {} THEN Len(sorted) + 1
             ELSE CHOOSE i \in later : \A j \in later : i <= j
    IN  SubSeq(sorted, 1, k - 1) \o <<p>> \o SubSeq(sorted, k, Len(sorted))

InsertByPriority(cm, sorted, p) ==
    LET later == { i \in 1..Len(sorted) :
                     get_module_priority(cm, sorted[i].module_name)
                       > get_module_priority(cm, p.module_name) }
        k == IF later = {} THEN Len(sorted) + 1
             ELSE CHOOSE i \in later : \A j \in later : i <= j
    IN  SubSeq(sorted, 1, k - 1) \o <<p>> \o SubSeq(sorted, k, Len(sorted))
SortedByPriority(cm, preds) ==
    IF preds = <<>> THEN <<>>
    ELSE InsertByPriority(cm, SortedByPriority(cm, SubSeq(preds, 1, Len(preds) - 1)),
                          preds[Len(preds)])

\* word_votes[word]: the predictions of that word, in list order
WordVotes(preds, w) == SelectSeq(preds, LAMBDA p : p.word = w)
VotedWords(preds) == { preds[i].word : i \in 1..Len(preds) }
MaxVotes(preds) ==
    CHOOSE n \in { Len(WordVotes(preds, w)) : w \in VotedWords(preds) } :
        \A w \in VotedWords(preds) : Len(WordVotes(preds, w)) <= n
WordsWithMaxVotes(preds) ==
    { w \in VotedWords(preds) : Len(WordVotes(preds, w)) = MaxVotes(preds) }

\* voting answers the most confident prediction of the whole list
SelectByVoting_GlobalMax(preds) == MaxByConfidence(preds)

\* on a tie voting answers from the first prediction's word group
SelectByVoting_TieFirstGroup(preds) ==
    IF Cardinality(WordsWithMaxVotes(preds)) = 1
    THEN MaxByConfidence(
             WordVotes(preds, CHOOSE w \in WordsWithMaxVotes(preds) : TRUE))
    ELSE MaxByConfidence(WordVotes(preds, preds[1].word))

SelectByVoting(preds) ==
    IF Cardinality(WordsWithMaxVotes(preds)) = 1
    THEN MaxByConfidence(
             WordVotes(preds, CHOOSE w \in WordsWithMaxVotes(preds) : TRUE))
    ELSE MaxByConfidence(preds)

\* an unknown strategy answers the first prediction of the list
select_final_prediction_UnknownFirst(cm, predictions, strategy) ==
    IF predictions = <<>> THEN NoPrediction
    ELSE IF Len(predictions) = 1 THEN predictions[1]
    ELSE IF strategy = "priority" THEN SortedByPriority(cm, predictions)[1]
    ELSE IF strategy = "highest_confidence" THEN MaxByConfidence(predictions)
    ELSE IF strategy = "voting" THEN SelectByVoting(predictions)
    ELSE predictions[1]

\* a lone prediction is answered only from the module of the top priority
select_final_prediction_SingleGated(cm, predictions, strategy) ==
    IF predictions = <<>> THEN NoPrediction
    ELSE IF Len(predictions) = 1
    THEN IF \A m \in Modules : get_module_priority(cm, predictions[1].module_name)
                                  <= get_module_priority(cm, m)
         THEN predictions[1] ELSE NoPrediction
    ELSE IF strategy = "priority" THEN SortedByPriority(cm, predictions)[1]
    ELSE IF strategy = "highest_confidence" THEN MaxByConfidence(predictions)
    ELSE IF strategy = "voting" THEN SelectByVoting(predictions)
    ELSE MaxByConfidence(predictions)

select_final_prediction(cm, predictions, strategy) ==
    IF predictions = <<>> THEN NoPrediction
    ELSE IF Len(predictions) = 1 THEN predictions[1]
    ELSE IF strategy = "priority" THEN SortedByPriority(cm, predictions)[1]
    ELSE IF strategy = "highest_confidence" THEN MaxByConfidence(predictions)
    ELSE IF strategy = "voting" THEN SelectByVoting(predictions)
    ELSE MaxByConfidence(predictions)

\* the priority strategy sorts the caller's list in place
ListAfterSelect_InPlace(cm, predictions, strategy) ==
    IF strategy = "priority" THEN SortedByPriority(cm, predictions)
    ELSE predictions

\* the caller's list after the call: sorted() and max() build new values and
\* word_votes is a local, so the argument is left as it was
ListAfterSelect(cm, predictions, strategy) == predictions

----------------------------------------------------------------------------
(* inference.predict_from_raw_frame *)

\* the returned tuple (word, confidence, status); raised: the call raised instead
Result(w, c, st, pct) ==
    [word |-> w, confidence |-> c, status |-> st, progress |-> pct, raised |-> FALSE]
Raised ==
    [word |-> "none", confidence |-> 0, status |-> "exception", progress |-> 0,
     raised |-> TRUE]

\* without legacy weights the chain answers "no_model" and touches no buffer
LegacyFallback_NoModel(cm, loaded, bufs, s, in) ==
    [result |-> Result("none", 0, "no_model", 0), buffers |-> bufs,
     legacy_run |-> cm.exists /\ cm.fallback_to_existing_lstm]

\* the legacy path is taken whatever fallback_to_existing_lstm says
LegacyFallback_IgnoreFlag(cm, loaded, bufs, s, in) ==
    IF in.kp.kind = "raise"
    THEN [result |-> Raised, buffers |-> bufs, legacy_run |-> TRUE]
    ELSE LET b1 == get_buffer(bufs, s)
         IN  [result |-> Result("none", 0, "collecting", 0),
              buffers |-> [b1 EXCEPT ![s] = FrameBufferAppend(b1[s], in.kp)],
              legacy_run |-> TRUE]

\* a window below the confidence threshold is answered with its word
LegacyFallback_WordOnLowConfidence(cm, loaded, bufs, s, in) ==
    IF in.kp.kind = "raise"
    THEN [result |-> Raised, buffers |-> bufs, legacy_run |-> TRUE]
    ELSE LET b1 == get_buffer(bufs, s)
         IN  [result |-> Result("A", 50, "low_confidence", 0),
              buffers |-> [b1 EXCEPT ![s] = FrameBufferAppend(b1[s], in.kp)],
              legacy_run |-> TRUE]

\* the buffer is emptied by every pass, whatever its status
LegacyFallback_AlwaysClears(cm, loaded, bufs, s, in) ==
    IF in.kp.kind = "raise"
    THEN [result |-> Raised, buffers |-> bufs, legacy_run |-> TRUE]
    ELSE [result |-> Result("none", 0, "collecting",
                            FillPercent(FrameBufferAppend(get_buffer(bufs, s)[s],
                                                          in.kp))),
          buffers |-> clear_buffer(get_buffer(bufs, s), s),
          legacy_run |-> TRUE]

\* step 3 and the final return: the legacy LSTM path, else "no_model"
LegacyFallback(cm, loaded, bufs, s, in) ==
    IF ~(cm.exists /\ cm.fallback_to_existing_lstm)
    THEN [result |-> Result("none", 0, "no_model", 0), buffers |-> bufs,
          legacy_run |-> FALSE]
    ELSE IF in.kp.kind = "raise"
    THEN [result |-> Raised, buffers |-> bufs, legacy_run |-> TRUE]
    ELSE LET b1 == get_buffer(bufs, s)
             b2 == [b1 EXCEPT ![s] = FrameBufferAppend(b1[s], in.kp)]
         IN  IF ~is_ready(b2[s])
             THEN [result |-> Result("none", 0, "collecting", FillPercent(b2[s])),
                   buffers |-> b2, legacy_run |-> TRUE]
             ELSE IF ~loaded
             THEN [result |-> Result("hello", MOCK_CONFIDENCE, "mock_ready", 0),
                   buffers |-> b2, legacy_run |-> TRUE]
             ELSE IF in.legacy.kind # "scores"
             THEN [result |-> Raised, buffers |-> b2, legacy_run |-> TRUE]
             ELSE IF in.legacy.conf < CONFIDENCE_THRESHOLD
             THEN [result |-> Result("none", in.legacy.conf, "low_confidence", 0),
                   buffers |-> b2, legacy_run |-> TRUE]
             ELSE [result |-> Result(in.legacy.word, in.legacy.conf, "ready", 0),
                   buffers |-> clear_buffer(b2, s), legacy_run |-> TRUE]

NoTrace ==
    [invoked |-> {}, threw |-> {}, returned |-> [m \in Modules |-> NoPrediction],
     predictions |-> <<>>, selected |-> NoPrediction,
     multi_run |-> FALSE, multi_raised |-> FALSE, legacy_run |-> FALSE]

Outcome(r, bufs, hist, tr) ==
    [result |-> r, buffers |-> bufs, history |-> hist, trace |-> tr]

\* the multi-module branch is entered whether or not initialization succeeded
UsesModules_IgnoreInit(cm, init) ==
    cm.exists /\ EnabledModules(cm) # <<>>

\* the multi-module branch is entered: initialized, configured, a module enabled
UsesModules(cm, init) ==
    init /\ cm.exists /\ EnabledModules(cm) # <<>>

\* the pass falls through to step 3: the legacy path's outcome lg completes it
FallThrough(lg, hist, tr) ==
    Outcome(lg.result, lg.buffers, hist, [tr EXCEPT !.legacy_run = lg.legacy_run])

\* what the fan-out ex did, as the trace of the pass
FanOutTrace(ex) ==
    [NoTrace EXCEPT !.invoked = ex.invoked, !.threw = ex.threw,
                    !.returned = ex.returned, !.predictions = ex.predictions,
                    !.multi_run = TRUE]

\* step 2 after the fan-out ex: select, or answer "low_confidence"; an error
\* escaping the step (in.fault) or a selection of None falls through
AfterFanOut(cm, loaded, s, in, ex, sel) ==
    IF ~in.fault /\ ex.predictions # <<>> /\ sel # NoPrediction
    THEN Outcome(Result(sel.word, sel.confidence, "ready", 0),
                 ex.buffers, ex.history, [FanOutTrace(ex) EXCEPT !.selected = sel])
    ELSE IF ~in.fault /\ ex.predictions = <<>>
    THEN Outcome(Result("none", 0, "low_confidence", 0),
                 ex.buffers, ex.history, FanOutTrace(ex))
    ELSE FallThrough(LegacyFallback(cm, loaded, ex.buffers, s, in), ex.history,
                     [FanOutTrace(ex) EXCEPT !.multi_raised = in.fault])

MultiModule(cm, loaded, s, in, ex) ==
    AfterFanOut(cm, loaded, s, in, ex,
                select_final_prediction(cm, ex.predictions,
                                        get_prediction_strategy(cm)))

predict_from_raw_frame(cm, init, mods, loaded, bufs, hist, s, in) ==
    IF require_face(cm) /\ ~in.face
    THEN Outcome(Result("none", 0, "no_face", 0), bufs, hist, NoTrace)
    ELSE IF UsesModules(cm, init)
    THEN MultiModule(cm, loaded, s, in,
                     execute_modules_parallel(cm, mods, bufs, hist, s, in,
                                              EnabledModules(cm)))
    ELSE FallThrough(LegacyFallback(cm, loaded, bufs, s, in), hist, NoTrace)

\* module_details["selected"]: the key is absent, None, or names the module
\* of the final pick and the strategy
SelectedEntry(k, m, st) == [kind |-> k, module |-> m, reason |-> st]

\* module_details = None
NoDetails ==
    [present |-> FALSE, active_modules |-> <<>>, predictions |-> <<>>,
     selected |-> SelectedEntry("absent", "none", "none")]

\* the module_details a pass with return_module_details=True returns; tr is
\* what the pass did
ModuleDetails(cm, tr, late) ==
    IF ~tr.multi_run \/ (tr.multi_raised /\ ~late) THEN NoDetails
    ELSE [present |-> TRUE, active_modules |-> EnabledModules(cm),
          predictions |-> tr.predictions,
          selected |->
              IF tr.multi_raised THEN SelectedEntry("absent", "none", "none")
              ELSE IF tr.predictions = <<>> THEN SelectedEntry("none", "none", "none")
              ELSE IF tr.selected = NoPrediction
                   THEN SelectedEntry("absent", "none", "none")
              ELSE SelectedEntry("set", tr.selected.module_name,
                            get_prediction_strategy(cm))]

\* p goes behind every prediction that is at least as confident
InsertByConfidence(sorted, p) ==
    SelectSeq(sorted, LAMBDA q : q.confidence >= p.confidence)
    \o <<p>>
    \o SelectSeq(sorted, LAMBDA q : q.confidence < p.confidence)

\* the listed predictions are left in the order the modules ran
RankByConfidence_Unsorted(preds) == preds

\* sorted(predictions, key=confidence, reverse=True): descending, equal
\* confidences keep their order
RECURSIVE RankByConfidence(_)
RankByConfidence(preds) ==
    IF preds = <<>> THEN <<>>
    ELSE InsertByConfidence(RankByConfidence(SubSeq(preds, 1, Len(preds) - 1)),
                            preds[Len(preds)])

\* routes/translate.py recognize_frame: ranks the predictions of the details
recognize_frame(md) ==
    IF md.present THEN [md EXCEPT !.predictions = RankByConfidence(@)] ELSE md

----------------------------------------------------------------------------
(* State machine *)

NoCall ==
    [op |-> "none", session |-> "none", face |-> FALSE,
     result |-> Result("none", 0, "none", 0), trace |-> NoTrace,
     extractions |-> 0, buffers_unchanged |-> TRUE, history_unchanged |-> TRUE,
     return_module_details |-> FALSE, module_details |-> NoDetails]

NoBuffers == [s \in {} |-> <<>>]

\* no direct call of DetectionModule.predict in progress
\* own[s] is the history the frames of session s alone would have built, and
\* alone the answer predict gives on it
NoDetection ==
    [op |-> "none", session |-> "none", scores |-> Skip, history |-> <<>>,
     result |-> NoPrediction, again |-> NoPrediction,
     own |-> [s \in {"s1", "s2"} |-> <<>>], alone |-> NoPrediction]

\* no direct call of ConfigurationManager.validate in progress
NoValidation ==
    [op |-> "none", config |-> NoConfig, after |-> NoConfig,
     raised |-> FALSE, is_valid |-> FALSE, errors |-> <<>>]

\* no direct call of a module's predict in progress
NoModuleCall ==
    [op |-> "none", module |-> "none", session |-> "none", kp |-> KpRaise,
     scores |-> Skip, threw |-> FALSE, result |-> NoPrediction,
     buffers_unchanged |-> TRUE, history_unchanged |-> TRUE]

\* no direct call of select_final_prediction in progress
NoSelection ==
    [op |-> "none", predictions |-> <<>>, strategy |-> "none",
     result |-> NoPrediction, after |-> <<>>, again |-> NoPrediction]

\* no direct call of _merge_hand_boxes in progress
NoMerge ==
    [op |-> "none", hand_boxes |-> <<>>, raised |-> FALSE,
     result |-> <<0, 0, 0, 0>>]

\* no pass in progress read by read; seen is the set of configuration versions
\* the reads of the pass saw, atomic the result the whole pass gives on the
\* configuration it started under
NoPass ==
    [pc |-> "idle", session |-> "none",
     frame |-> [face |-> FALSE, kp |-> KpRaise, det |-> Skip, rec |-> Skip,
                trans |-> Skip, legacy |-> Skip, fault |-> FALSE],
     enabled_modules |-> <<>>,
     fan_out |-> [enabled |-> <<>>, buffers |-> [s \in {} |-> <<>>],
                  history |-> <<>>, invoked |-> {}, threw |-> {},
                  returned |-> [m \in Modules |-> NoPrediction],
                  predictions |-> <<>>],
     strategy |-> "none", seen |-> {}, history |-> <<>>,
     atomic |-> Result("none", 0, "none", 0)]

Init ==
    /\ config_manager = NoConfig
    /\ isl_modules_initialized = FALSE
    /\ modules = {}
    /\ model_loaded = FALSE
    /\ buffers = NoBuffers
    /\ prediction_history = <<>>
    /\ last = NoCall
    /\ selection = NoSelection
    /\ frame_no = 0
    /\ consumed = NoBuffers
    /\ detection_call = NoDetection
    /\ validation = NoValidation
    /\ module_call = NoModuleCall
    /\ merge_call = NoMerge
    /\ config_version = 0
    /\ pass = NoPass

\* inference.initialize_model: weights missing, loaded, or loading failed
initialize_model(outcome) ==
    /\ last.op = "none"
    /\ model_loaded' = CASE outcome = "missing" -> model_loaded
                         [] outcome = "loaded" -> TRUE
                         [] OTHER -> FALSE
    /\ last' = NoCall
    /\ UNCHANGED <<config_manager, isl_modules_initialized, modules, buffers,
                   prediction_history, records>>

\* inference.initialize_isl_modules at startup: cfg is the loaded configuration,
\* created the modules whose model loaded and whose constructor succeeded
initialize_isl_modules(cfg, created, outcome) ==
    /\ created \subseteq cfg.enabled
    /\ last' = NoCall
    /\ UNCHANGED <<model_loaded, buffers, records>>
    /\ CASE outcome = "config_error" ->
              /\ isl_modules_initialized' = FALSE
              /\ UNCHANGED <<config_manager, modules, prediction_history>>
         [] outcome = "error" ->
              /\ config_manager' = cfg
              /\ isl_modules_initialized' = FALSE
              /\ UNCHANGED <<modules, prediction_history>>
         [] OTHER ->
              /\ config_manager' = cfg
              /\ isl_modules_initialized' = TRUE
              /\ modules' = modules \cup created
              /\ prediction_history' =
                    IF "detection" \in created THEN <<>> ELSE prediction_history

\* the calls one frame can make, given what the state lets it reach
Runs(m) ==
    /\ UsesModules(config_manager, isl_modules_initialized)
    /\ m \in config_manager.enabled
    /\ m \in modules

Frame(f, k, d, r, t, l, x) ==
    [face |-> f, kp |-> k, det |-> d, rec |-> r, trans |-> t, legacy |-> l,
     fault |-> x]

\* the legacy model is only called with weights loaded and a vector
\* extracted; a vector of the wrong size is dropped by the buffer, and a
\* window that is already full is then classified once more
LegacyInputs(k) ==
    IF model_loaded /\ config_manager.fallback_to_existing_lstm
       /\ k.kind = "vector"
    THEN LegacyOutcomes ELSE {Skip}

\* the recognition classifier is only called on a full window of 258-vectors
WindowFills(s, k) ==
    /\ k.dim = KEYPOINT_DIM
    /\ Len(get_buffer(buffers, s)[s]) + 1 >= BUFFER_SIZE

RecInputs(s, k, outcomes) ==
    IF ~Runs("recognition") THEN {Skip}
    ELSE IF WindowFills(s, k) THEN outcomes
    ELSE { o \in outcomes : o.kind # "scores" }

\* frames served by the modules: the extractor's outcome is read by the
\* recognition module only
ModuleFrames(s) ==
    UNION { { Frame(TRUE, k, d, r, t, Skip, FALSE) :
                d \in IF Runs("detection") THEN DetOutcomes ELSE {Skip},
                r \in RecInputs(s, k, RecOutcomes),
                t \in IF Runs("translation") THEN TransOutcomes ELSE {Skip} } :
            k \in IF Runs("recognition") THEN KpOutcomes ELSE {KpRaise} }

\* frames on which an error escapes the multi-module step: the predictions
\* are discarded, so one outcome per side effect of a module stands for all
FaultFrames(s) ==
    UNION { { Frame(TRUE, k, d, r, t, l, TRUE) :
                d \in IF Runs("detection")
                      THEN { o \in DetOutcomes : o.kind = "nohand" \/ o.conf = 90 }
                      ELSE {Skip},
                r \in RecInputs(s, k, { o \in RecOutcomes : o.word # "B" }),
                t \in IF Runs("translation")
                      THEN { o \in TransOutcomes : o.kind = "nohand" }
                      ELSE {Skip},
                l \in LegacyInputs(k) } : k \in KpOutcomes }

\* frames that reach the fallback chain directly
LegacyFrames ==
    UNION { { Frame(TRUE, k, Skip, Skip, Skip, l, FALSE) : l \in LegacyInputs(k) } :
            k \in IF config_manager.fallback_to_existing_lstm
                  THEN KpOutcomes ELSE {KpRaise} }

\* a frame without a face
NoFaceFrame == Frame(FALSE, KpRaise, Skip, Skip, Skip, Skip, FALSE)

\* the frames whose multi-module step, if entered, completes
CompletingFrames(s) ==
    {NoFaceFrame}
    \cup IF UsesModules(config_manager, isl_modules_initialized)
         THEN ModuleFrames(s) ELSE LegacyFrames

FrameInputs(s) ==
    CompletingFrames(s)
    \cup IF UsesModules(config_manager, isl_modules_initialized)
         THEN FaultFrames(s) ELSE {}

\* number of extract_keypoints calls of the pass
Extractions(in, tr) ==
    (IF "recognition" \in tr.invoked /\ in.rec.kind # "throw" THEN 1 ELSE 0)
    + (IF tr.legacy_run THEN 1 ELSE 0)

PredictFromRawFrame(s, in) ==
    LET out == predict_from_raw_frame(config_manager, isl_modules_initialized,
                                      modules, model_loaded, buffers,
                                      prediction_history, s, in)
    IN  /\ buffers' = out.buffers
        /\ prediction_history' = out.history
        /\ last' = [op |-> "predict", session |-> s, face |-> in.face,
                    result |-> out.result, trace |-> out.trace,
                    extractions |-> Extractions(in, out.trace),
                    buffers_unchanged |-> (out.buffers = buffers),
                    history_unchanged |-> (out.history = prediction_history),
                    return_module_details |-> FALSE,
                    module_details |-> NoDetails]
        /\ UNCHANGED <<config_manager, isl_modules_initialized, modules,
                       model_loaded>>

\* recognize_frame called with return_module_details=true: the pass, then the
\* ranking of the listed predictions; late: an error that escapes the
\* multi-module step does so after module_details was built
RecognizeFrameWithDetails(s, in, late) ==
    LET out == predict_from_raw_frame(config_manager, isl_modules_initialized,
                                      modules, model_loaded, buffers,
                                      prediction_history, s, in)
    IN  /\ buffers' = out.buffers
        /\ prediction_history' = out.history
        /\ last' = [op |-> "predict", session |-> s, face |-> in.face,
                    result |-> out.result, trace |-> out.trace,
                    extractions |-> Extractions(in, out.trace),
                    buffers_unchanged |-> (out.buffers = buffers),
                    history_unchanged |-> (out.history = prediction_history),
                    return_module_details |-> TRUE,
                    module_details |->
                        recognize_frame(ModuleDetails(config_manager, out.trace,
                                                      late))]
        /\ UNCHANGED <<config_manager, isl_modules_initialized, modules,
                       model_loaded>>

\* the route handler consumes the returned tuple (routes/translate.py)
Respond ==
    /\ last.op = "predict"
    /\ ~last.result.raised
    /\ last' = NoCall
    /\ UNCHANGED <<config_manager, isl_modules_initialized, modules,
                   model_loaded, buffers, prediction_history, records>>

\* the exception propagates out of the route handler; the server carries on
Propagate ==
    /\ last.op = "predict"
    /\ last.result.raised
    /\ last' = NoCall
    /\ UNCHANGED <<config_manager, isl_modules_initialized, modules,
                   model_loaded, buffers, prediction_history, records>>

Startup(cfgs) ==
    /\ last.op = "none"
    /\ ~isl_modules_initialized
    /\ ~config_manager.exists
    /\ \E cfg \in cfgs, outcome \in {"config_error", "error", "ok"} :
         \E created \in SUBSET cfg.enabled :
             initialize_isl_modules(cfg, created, outcome)

\* start-up, then frames; the fallback chain under the default strategy
Next ==
    \/ \E outcome \in {"missing", "loaded", "error"} : initialize_model(outcome)
    \/ Startup(FallbackConfigs)
    \/ /\ last.op = "none"
       /\ \E s \in Sessions : \E in \in FrameInputs(s) : PredictFromRawFrame(s, in)
       /\ UNCHANGED records
    \/ Respond
    \/ Propagate

Spec == Init /\ [][Next]_vars

\* start-up, then frames whose multi-module step completes; every strategy
NextSelection ==
    \/ Startup(SelectionConfigs)
    \/ /\ last.op = "none"
       /\ \E s \in Sessions : \E in \in CompletingFrames(s) :
            PredictFromRawFrame(s, in)
       /\ UNCHANGED records
    \/ Respond
    \/ Propagate

SpecSelection == Init /\ [][NextSelection]_vars

----------------------------------------------------------------------------
(* select_final_prediction called directly, as the unit tests call it *)

\* predictions that passed the gate, from any module, in any order
SurvivingPredictions ==
    { Pred(m, w, c) : m \in Modules, w \in Words, c \in {70, 90} }
PredictionLists ==
    UNION { [1..n -> SurvivingPredictions] : n \in 0..MaxPredictions }

\* strategy names a caller can pass: the configured ones and a misspelt one
StrategyNames == Strategies \cup {"Voting"}

\* two modules share the top priority
TiedPriorities ==
    [m \in Modules |-> IF m = "translation" THEN 2 ELSE 1]

\* the configurations under which the priorities differ
PriorityConfigs ==
    { Config(Modules, Thresholds, pr, "priority", TRUE) :
        pr \in PriorityTables \cup {TiedPriorities} }

\* the state after a start-up that loaded a configuration
InitSelect ==
    /\ config_manager \in PriorityConfigs
    /\ isl_modules_initialized = TRUE
    /\ modules = {}
    /\ model_loaded = FALSE
    /\ buffers = NoBuffers
    /\ prediction_history = <<>>
    /\ last = NoCall
    /\ selection = NoSelection
    /\ frame_no = 0
    /\ consumed = NoBuffers
    /\ detection_call = NoDetection
    /\ validation = NoValidation
    /\ module_call = NoModuleCall
    /\ merge_call = NoMerge
    /\ config_version = 0
    /\ pass = NoPass

served == <<config_manager, isl_modules_initialized, modules, model_loaded,
            buffers, prediction_history, last>>

SelectFinalPrediction(predictions, strategy) ==
    /\ selection.op = "none"
    /\ selection' =
          [op |-> "select", predictions |-> predictions, strategy |-> strategy,
           result |-> select_final_prediction(config_manager, predictions, strategy),
           after |-> ListAfterSelect(config_manager, predictions, strategy),
           again |-> NoPrediction]
    /\ UNCHANGED <<served, frame_no, consumed, detection_call, validation,
                   module_call, merge_call,
                   config_version, pass>>

\* the caller repeats the call on the list it still holds
SelectAgain ==
    /\ selection.op = "select"
    /\ selection' =
          [selection EXCEPT
             !.op = "again",
             !.again = select_final_prediction(config_manager, selection.after,
                                               selection.strategy),
             !.after = ListAfterSelect(config_manager, selection.after,
                                       selection.strategy)]
    /\ UNCHANGED <<served, frame_no, consumed, detection_call, validation,
                   module_call, merge_call,
                   config_version, pass>>

SelectReturn ==
    /\ selection.op = "again"
    /\ selection' = NoSelection
    /\ UNCHANGED <<served, frame_no, consumed, detection_call, validation,
                   module_call, merge_call,
                   config_version, pass>>

NextSelect ==
    \/ /\ selection.op = "none"
       /\ \E predictions \in PredictionLists, strategy \in StrategyNames :
            SelectFinalPrediction(predictions, strategy)
    \/ SelectAgain
    \/ SelectReturn

SpecSelect == InitSelect /\ [][NextSelect]_vars

----------------------------------------------------------------------------
(* two sessions sharing the buffer store; every vector carries the number of
   its frame *)

BufferSessions == {"s1", "s2"}

\* recognition alone, or no module: the window is fed by the recognition
\* module or by the legacy path
BufferConfigs ==
    { c \in FallbackConfigs : /\ c.enabled \subseteq {"recognition"}
                              /\ c.fallback_to_existing_lstm }

\* the vector extracted from the next frame, of the right or the wrong size
NumberedVectors ==
    { [kind |-> "vector", dim |-> d, vec |-> frame_no + 1] :
        d \in {KEYPOINT_DIM, POSE_DIM} }

\* the recognition classifier answers below, at and above the clear threshold
WindowScores ==
    { Scores("fail", "none", 0, 0) }
    \cup { Scores("scores", "A", c, 50) :
             c \in {RECOGNITION_THRESHOLD, 70, CLEAR_THRESHOLD - 1,
                    CLEAR_THRESHOLD, 90} }

NumberedFrames(s) ==
    UNION { { Frame(TRUE, k, Skip, r, Skip, l, FALSE) :
                r \in RecInputs(s, k, WindowScores),
                l \in IF UsesModules(config_manager, isl_modules_initialized)
                      THEN {Skip} ELSE LegacyInputs(k) } :
            k \in NumberedVectors }

\* the window a classifier read and the call then cleared, if it did
ConsumedBy(s, in, out) ==
    LET window == FrameBufferAppend(BufferOf(buffers, s), in.kp)
        rec == out.trace.returned["recognition"]
    IN  IF \/ rec # NoPrediction /\ should_clear_buffer(rec.confidence)
           \/ out.trace.legacy_run /\ out.result.status = "ready"
        THEN (s :> window) @@ consumed
        ELSE consumed

SubmitFrame(s, in) ==
    /\ PredictFromRawFrame(s, in)
    /\ frame_no' = frame_no + 1
    /\ consumed' =
          ConsumedBy(s, in,
                     predict_from_raw_frame(config_manager, isl_modules_initialized,
                                            modules, model_loaded, buffers,
                                            prediction_history, s, in))
    /\ UNCHANGED <<selection, detection_call, validation, module_call, merge_call,
                   config_version, pass>>

\* buffer_manager called directly for one session
BufferStep(bufs) ==
    /\ buffers' = bufs
    /\ UNCHANGED <<config_manager, isl_modules_initialized, modules, model_loaded,
                   prediction_history, last, selection, consumed, detection_call,
                   validation, module_call, merge_call,
                   config_version, pass>>

\* get_buffer(s).append(kp)
AppendVector(s, kp) ==
    /\ frame_no' = frame_no + 1
    /\ BufferStep([get_buffer(buffers, s) EXCEPT ![s] = FrameBufferAppend(@, kp)])

\* get_buffer(s).clear()
ClearWindow(s) ==
    /\ frame_no' = frame_no
    /\ BufferStep([get_buffer(buffers, s) EXCEPT ![s] = <<>>])

\* get_buffer(s).get_sequence()
GetSequence(s) ==
    /\ frame_no' = frame_no
    /\ BufferStep([get_buffer(buffers, s) EXCEPT ![s] = BufferAfterGetSequence(@)])

ClearBuffer(s) ==
    /\ frame_no' = frame_no
    /\ BufferStep(clear_buffer(buffers, s))

DeleteBuffer(s) ==
    /\ frame_no' = frame_no
    /\ BufferStep(delete_buffer(buffers, s))

NextBuffers ==
    \/ \E outcome \in {"loaded"} : initialize_model(outcome)
    \/ Startup(BufferConfigs)
    \/ /\ last.op = "none" /\ frame_no < MaxFrames
       /\ \E s \in BufferSessions : \E in \in NumberedFrames(s) : SubmitFrame(s, in)
    \/ /\ last.op = "none" /\ frame_no < MaxFrames
       /\ \E s \in BufferSessions : \E kp \in NumberedVectors : AppendVector(s, kp)
    \/ /\ last.op = "none"
       /\ \E s \in BufferSessions : ClearWindow(s)
    \/ /\ last.op = "none"
       /\ \E s \in BufferSessions : GetSequence(s)
    \/ /\ last.op = "none"
       /\ \E s \in BufferSessions : ClearBuffer(s)
    \/ /\ last.op = "none"
       /\ \E s \in BufferSessions : DeleteBuffer(s)
    \/ Respond
    \/ Propagate

SpecBuffers == Init /\ [][NextBuffers]_vars

----------------------------------------------------------------------------
(* DetectionModule.predict called on its own, frame after frame *)

DetectionConfigs ==
    { c \in FallbackConfigs : c.enabled = {"detection"} }

\* the classifier's best word, its probability and the runner-up's: margins
\* below, at and above 0.15, probabilities below, at and above the threshold
DetectionScores ==
    { Scores("nohand", "none", 0, 0) }
    \cup { Scores("scores", w, p[1], p[2]) :
             w \in Words,
             p \in { <<50, 45>>, <<80, 70>>, <<DETECTION_THRESHOLD + MARGIN - 1,
                                              DETECTION_THRESHOLD>>,
                     <<80, 50>>, <<DETECTION_THRESHOLD, DETECTION_THRESHOLD - MARGIN>>,
                     <<60, 30>> } }

\* execute_modules_parallel hands one frame of session s to the one detection
\* module of the process; predict itself is not told the session
DetectionCall(s, d) ==
    /\ detection_call.op = "none"
    /\ "detection" \in modules
    /\ prediction_history' = DetectionPredict(buffers, prediction_history, d).history
    /\ detection_call' =
          [NoDetection EXCEPT
             !.op = "predict", !.session = s, !.scores = d,
             !.history = prediction_history,
             !.result = DetectionPredict(buffers, prediction_history, d).pred,
             !.own = [detection_call.own EXCEPT
                        ![s] = DetectionPredict(buffers, @, d).history],
             !.alone = DetectionPredict(buffers, detection_call.own[s], d).pred]
    /\ UNCHANGED <<config_manager, isl_modules_initialized, modules,
                   model_loaded, buffers, last, selection, frame_no, consumed,
                   validation, module_call, merge_call,
                   config_version, pass>>

\* predict called a second time on the frame it has just been given
DetectionAgain ==
    /\ detection_call.op = "predict"
    /\ prediction_history' =
          DetectionPredict(buffers, prediction_history, detection_call.scores).history
    /\ detection_call' =
          [detection_call EXCEPT
             !.op = "again",
             !.again = DetectionPredict(buffers, prediction_history,
                                        detection_call.scores).pred,
             !.own = [detection_call.own EXCEPT
                        ![detection_call.session] =
                            DetectionPredict(buffers, @, detection_call.scores).history]]
    /\ UNCHANGED <<config_manager, isl_modules_initialized, modules,
                   model_loaded, buffers, last, selection, frame_no, consumed,
                   validation, module_call, merge_call,
                   config_version, pass>>

DetectionReturn ==
    /\ detection_call.op \in {"predict", "again"}
    /\ detection_call' = [NoDetection EXCEPT !.own = detection_call.own]
    /\ UNCHANGED <<served, selection, frame_no, consumed, validation,
                   module_call, merge_call,
                   config_version, pass>>

NextDetection ==
    \/ Startup(DetectionConfigs)
    \/ /\ detection_call.op = "none"
       /\ \E s \in BufferSessions, d \in DetectionScores : DetectionCall(s, d)
    \/ DetectionAgain
    \/ DetectionReturn

SpecDetection == Init /\ [][NextDetection]_vars

----------------------------------------------------------------------------
(* recognize_frame asked for the module details *)

\* every set of enabled modules; a strategy that reads the priorities and one
\* that reads the confidences
DetailsConfigs ==
    { c \in SelectionConfigs :
        /\ c.priority = DefaultPriorities
        /\ c.prediction_strategy \in {"priority", "highest_confidence"} }

NextDetails ==
    \/ \E outcome \in {"missing", "loaded"} : initialize_model(outcome)
    \/ Startup(DetailsConfigs)
    \/ /\ last.op = "none"
       /\ \E s \in Sessions : \E in \in FrameInputs(s) :
            \E late \in IF in.fault THEN BOOLEAN ELSE {FALSE} :
                RecognizeFrameWithDetails(s, in, late)
       /\ UNCHANGED records
    \/ Respond
    \/ Propagate

SpecDetails == Init /\ [][NextDetails]_vars

----------------------------------------------------------------------------
(* the configured thresholds changed between passes *)

\* the modules that are enabled run alone, without the legacy fallback
ThresholdConfigs ==
    { c \in FallbackConfigs : ~c.fallback_to_existing_lstm /\ c.enabled # {} }

\* a configured threshold below, at and above the modules' own ones
ThresholdLevels == {50, 70, 90}

\* what a module's classifier answers: probabilities between the levels
ModuleOutputs == { Scores("scores", "A", c, 0) : c \in {60, 80} }

ThresholdFrames(s) ==
    UNION { { Frame(TRUE, k, d, r, t, Skip, FALSE) :
                d \in IF Runs("detection") THEN ModuleOutputs ELSE {Skip},
                r \in RecInputs(s, k, ModuleOutputs
                                         \cup {Scores("fail", "none", 0, 0)}),
                t \in IF Runs("translation") THEN ModuleOutputs ELSE {Skip} } :
            k \in { v \in KpOutcomes : v.kind = "vector" /\ v.dim = KEYPOINT_DIM } }

\* config.modules[m].confidence_threshold is assigned a new value; no module
\* is created again
SetThreshold(m, th) ==
    /\ last.op = "none"
    /\ config_manager.exists
    /\ th # config_manager.threshold[m]
    /\ config_manager' = [config_manager EXCEPT !.threshold[m] = th]
    /\ UNCHANGED <<isl_modules_initialized, modules, model_loaded, buffers,
                   prediction_history, last, records>>

NextThreshold ==
    \/ Startup(ThresholdConfigs)
    \/ \E m \in Modules, th \in ThresholdLevels : SetThreshold(m, th)
    \/ /\ last.op = "none"
       /\ \E s \in Sessions : \E in \in ThresholdFrames(s) :
            PredictFromRawFrame(s, in)
       /\ UNCHANGED records
    \/ Respond

SpecThreshold == Init /\ [][NextThreshold]_vars

----------------------------------------------------------------------------
(* each module's predict called on its own, its collaborators failing *)

ModuleCallConfigs == { c \in FallbackConfigs : c.enabled = Modules }

\* what can go wrong inside predict: the extraction raises ("extract_fail"),
\* finds nothing ("nohand"), the classifier raises ("fail"), the label
\* lookup raises ("label_fail")
ModuleFailures ==
    { Scores(k, "none", 0, 0) : k \in {"extract_fail", "nohand", "fail"} }
    \cup { Scores("label_fail", "none", c, 0) : c \in {90} }

ModuleScores == ModuleFailures \cup { Scores("scores", w, c, 50) : w \in Words, c \in {50, 90} }

\* the pose extraction of the recognition module raises or yields a vector
ModuleVectors(m) ==
    IF m = "recognition" THEN KpOutcomes ELSE {KpRaise}

PredictOf(m, bufs, hist, s, kp, d) ==
    CASE m = "detection" -> DetectionPredict(bufs, hist, d)
      [] m = "recognition" -> RecognitionPredict(bufs, hist, s, kp, d)
      [] OTHER -> TranslationPredict(bufs, hist, d)

ModulePredict(m, s, kp, d) ==
    /\ module_call.op = "none"
    /\ m \in modules
    /\ buffers' = PredictOf(m, buffers, prediction_history, s, kp, d).buffers
    /\ prediction_history' =
          PredictOf(m, buffers, prediction_history, s, kp, d).history
    /\ module_call' =
          [op |-> "predict", module |-> m, session |-> s, kp |-> kp, scores |-> d,
           threw |-> PredictOf(m, buffers, prediction_history, s, kp, d).threw,
           result |-> PredictOf(m, buffers, prediction_history, s, kp, d).pred,
           buffers_unchanged |-> buffers' = buffers,
           history_unchanged |-> prediction_history' = prediction_history]
    /\ UNCHANGED <<config_manager, isl_modules_initialized, modules,
                   model_loaded, last, selection, frame_no, consumed,
                   detection_call, validation, merge_call, config_version,
                   pass>>

ModuleReturn ==
    /\ module_call.op = "predict"
    /\ module_call' = NoModuleCall
    /\ UNCHANGED <<served, selection, frame_no, consumed, detection_call,
                   validation, merge_call, config_version, pass>>

NextModules ==
    \/ Startup(ModuleCallConfigs)
    \/ /\ module_call.op = "none"
       /\ \E m \in Modules, s \in Sessions, d \in ModuleScores :
            \E kp \in ModuleVectors(m) : ModulePredict(m, s, kp, d)
    \/ ModuleReturn

SpecModules == Init /\ [][NextModules]_vars

----------------------------------------------------------------------------
(* ConfigurationManager.validate called on a configuration as loaded *)

\* a value read from the JSON configuration: a number, or anything else
\* (a string, null), which _dict_to_config stores as it is
Number(n) == [kind |-> "number", value |-> n]
NotANumber == [kind |-> "other", value |-> 0]

ModuleConfig(en, pr, th, path) ==
    [enabled |-> en, priority |-> pr, confidence_threshold |-> th,
     model_path |-> path]

ISLModulesConfig(mods, st) == [modules |-> mods, prediction_strategy |-> st]

valid_strategies == {"priority", "highest_confidence", "voting"}

\* priorities below and at 1, thresholds below, at the ends of and above
\* [0, 1], a missing and a present model path
ModuleConfigs ==
    { ModuleConfig(en, pr, th, path) :
        en \in BOOLEAN,
        pr \in {Number(0), Number(1), NotANumber},
        th \in {Number(0 - 10), Number(0), Number(100), Number(110), NotANumber},
        path \in {"", "model.h5"} }

ValidatedModules == {"detection", "recognition"}

LoadedConfigs ==
    { ISLModulesConfig(mods, st) :
        mods \in [ValidatedModules -> ModuleConfigs],
        st \in {"voting", "unknown_strategy"} }

StrategyErrors(cfg) ==
    IF cfg.prediction_strategy \notin valid_strategies
    THEN << <<"config", "prediction_strategy">> >> ELSE <<>>

ThresholdErrors(name, mc) ==
    IF ~(0 <= mc.confidence_threshold.value /\ mc.confidence_threshold.value <= 100)
    THEN << <<name, "confidence_threshold">> >> ELSE <<>>

PriorityErrors(name, mc) ==
    IF mc.priority.value < 1 THEN << <<name, "priority">> >> ELSE <<>>

ModelPathErrors(name, mc) ==
    IF mc.enabled /\ mc.model_path = "" THEN << <<name, "model_path">> >> ELSE <<>>

\* the comparisons of validate raise TypeError on a value that is no number
ComparisonRaises(mc) ==
    mc.confidence_threshold.kind # "number" \/ mc.priority.kind # "number"

RECURSIVE ModuleErrors(_, _)
ModuleErrors(cfg, names) ==
    IF names = <<>> THEN <<>>
    ELSE IF Head(names) \notin DOMAIN cfg.modules THEN ModuleErrors(cfg, Tail(names))
    ELSE ThresholdErrors(Head(names), cfg.modules[Head(names)])
         \o PriorityErrors(Head(names), cfg.modules[Head(names)])
         \o ModelPathErrors(Head(names), cfg.modules[Head(names)])
         \o ModuleErrors(cfg, Tail(names))

ValidateErrors(cfg) == StrategyErrors(cfg) \o ModuleErrors(cfg, ModuleOrder)

validate(cfg) ==
    IF \E name \in DOMAIN cfg.modules : ComparisonRaises(cfg.modules[name])
    THEN [raised |-> TRUE, is_valid |-> FALSE, errors |-> <<>>]
    ELSE [raised |-> FALSE, is_valid |-> Len(ValidateErrors(cfg)) = 0,
          errors |-> ValidateErrors(cfg)]

\* validate assigns nothing to self.config
ConfigAfterValidate(cfg) == cfg

Validate(cfg) ==
    /\ validation.op = "none"
    /\ validation' = [op |-> "validate", config |-> cfg,
                      after |-> ConfigAfterValidate(cfg),
                      raised |-> validate(cfg).raised,
                      is_valid |-> validate(cfg).is_valid,
                      errors |-> validate(cfg).errors]
    /\ UNCHANGED <<served, selection, frame_no, consumed, detection_call,
                   module_call, merge_call,
                   config_version, pass>>

ValidateReturn ==
    /\ validation.op = "validate"
    /\ validation' = NoValidation
    /\ UNCHANGED <<served, selection, frame_no, consumed, detection_call,
                   module_call, merge_call,
                   config_version, pass>>

NextValidate ==
    \/ /\ validation.op = "none"
       /\ \E cfg \in LoadedConfigs : Validate(cfg)
    \/ ValidateReturn

SpecValidate == Init /\ [][NextValidate]_vars

----------------------------------------------------------------------------
(* TranslationModule._merge_hand_boxes called on its own *)

MaxBoxes == 2

\* boxes (x, y, w, h): apart, touching, overlapping, nested, of no width
BoxOrigins == {0, 2}
BoxSides == {0, 1, 3}
HandBoxes ==
    { <<x, y, w, h>> : x \in BoxOrigins, y \in BoxOrigins,
                       w \in BoxSides, h \in BoxSides }
BoxLists == UNION { [1..n -> HandBoxes] : n \in 0..MaxBoxes }

\* min(...) and max(...) over a generator
MinOf(values) == CHOOSE v \in values : \A u \in values : v <= u
MaxOf(values) == CHOOSE v \in values : \A u \in values : u <= v

\* the list is merged into the corners of its first box
merge_hand_boxes_FirstBox(hand_boxes) ==
    [raised |-> hand_boxes = <<>>,
     box |-> IF hand_boxes = <<>> THEN <<0, 0, 0, 0>>
             ELSE <<hand_boxes[1][1], hand_boxes[1][2],
                    hand_boxes[1][1] + hand_boxes[1][3],
                    hand_boxes[1][2] + hand_boxes[1][4]>>]

\* (x, y, x1, y1); min() of an empty list raises ValueError
merge_hand_boxes(hand_boxes) ==
    IF Len(hand_boxes) = 1
    THEN [raised |-> FALSE,
          box |-> <<hand_boxes[1][1], hand_boxes[1][2],
                    hand_boxes[1][1] + hand_boxes[1][3],
                    hand_boxes[1][2] + hand_boxes[1][4]>>]
    ELSE IF hand_boxes = <<>>
    THEN [raised |-> TRUE, box |-> <<0, 0, 0, 0>>]
    ELSE [raised |-> FALSE,
          box |-> << MinOf({ hand_boxes[i][1] : i \in 1..Len(hand_boxes) }),
                     MinOf({ hand_boxes[i][2] : i \in 1..Len(hand_boxes) }),
                     MaxOf({ hand_boxes[i][1] + hand_boxes[i][3] :
                               i \in 1..Len(hand_boxes) }),
                     MaxOf({ hand_boxes[i][2] + hand_boxes[i][4] :
                               i \in 1..Len(hand_boxes) }) >>]

MergeHandBoxes(hand_boxes) ==
    /\ merge_call.op = "none"
    /\ merge_call' = [op |-> "merge", hand_boxes |-> hand_boxes,
                      raised |-> merge_hand_boxes(hand_boxes).raised,
                      result |-> merge_hand_boxes(hand_boxes).box]
    /\ UNCHANGED <<served, selection, frame_no, consumed, detection_call,
                   validation, module_call, config_version, pass>>

MergeReturn ==
    /\ merge_call.op = "merge"
    /\ merge_call' = NoMerge
    /\ UNCHANGED <<served, selection, frame_no, consumed, detection_call,
                   validation, module_call, config_version, pass>>

NextMerge ==
    \/ \E hand_boxes \in BoxLists : MergeHandBoxes(hand_boxes)
    \/ MergeReturn

SpecMerge == Init /\ [][NextMerge]_vars

----------------------------------------------------------------------------
(* a pass of predict_from_raw_frame taken read by read, the configuration
   replaced under it *)

MaxReloads == 1

\* detection alone or with translation, the thresholds at the lower or the
\* upper level, either module first, two strategies; no legacy fallback
ReloadConfigs ==
    { Config(en, th, pr, st, FALSE) :
        en \in { {"detection"}, {"detection", "translation"} },
        th \in { Thresholds, [m \in Modules |-> 90] },
        pr \in PriorityTables,
        st \in {"priority", "highest_confidence"} }

\* a frame on which every module instance has an answer
ReloadFrames ==
    { Frame(TRUE, k, d, Skip, t, Skip, FALSE) :
        k \in { v \in KpOutcomes : v.kind = "vector" /\ v.dim = KEYPOINT_DIM },
        d \in IF "detection" \in modules
              THEN { Scores("scores", "A", 80, 50) } ELSE {Skip},
        t \in IF "translation" \in modules
              THEN { Scores("scores", "B", 90, 50) } ELSE {Skip} }

\* self.config is assigned a configuration loaded anew; the module instances
\* stay
Reload(cfg) ==
    /\ config_manager.exists
    /\ config_version < MaxReloads
    /\ cfg # config_manager
    /\ config_manager' = cfg
    /\ config_version' = config_version + 1
    /\ UNCHANGED <<isl_modules_initialized, modules, model_loaded, buffers,
                   prediction_history, last, selection, frame_no, consumed,
                   detection_call, validation, module_call, merge_call, pass>>

\* the pass returns out
Returned(out) ==
    /\ buffers' = out.buffers
    /\ prediction_history' = out.history
    /\ last' = [op |-> "predict", session |-> pass.session,
                face |-> pass.frame.face,
                result |-> out.result, trace |-> out.trace,
                extractions |-> Extractions(pass.frame, out.trace),
                buffers_unchanged |-> (out.buffers = buffers),
                history_unchanged |-> (out.history = prediction_history),
                return_module_details |-> FALSE,
                module_details |-> NoDetails]

\* steps 1 and 2 up to the list of enabled modules: the first read of the
\* configuration; without a module to run the pass ends in step 3
ReadEnabled(s, in) ==
    /\ last.op = "none" /\ pass.pc = "idle"
    /\ UsesModules(config_manager, isl_modules_initialized)
    /\ pass' = [NoPass EXCEPT
                  !.pc = "fan_out", !.session = s, !.frame = in,
                  !.enabled_modules = EnabledModules(config_manager),
                  !.seen = {config_version},
                  !.history = prediction_history,
                  !.atomic =
                      predict_from_raw_frame(config_manager,
                          isl_modules_initialized, modules, model_loaded,
                          buffers, prediction_history, s, in).result]
    /\ UNCHANGED <<served, selection, frame_no, consumed, detection_call,
                   validation, module_call, merge_call, config_version>>

\* the fan-out ex read a threshold if a module returned a prediction
ThresholdRead(ex) == \E m \in Modules : ex.returned[m] # NoPrediction

\* execute_modules_parallel on the list read before: the thresholds are read
\* from the configuration as it is now
FanOut ==
    /\ pass.pc = "fan_out"
    /\ pass' = [pass EXCEPT
                  !.pc = "strategy",
                  !.fan_out =
                      execute_modules_parallel(config_manager, modules, buffers,
                          prediction_history, pass.session, pass.frame,
                          pass.enabled_modules),
                  !.seen =
                      IF ThresholdRead(
                             execute_modules_parallel(config_manager, modules,
                                 buffers, prediction_history, pass.session,
                                 pass.frame, pass.enabled_modules))
                      THEN @ \cup {config_version} ELSE @]
    /\ buffers' = pass'.fan_out.buffers
    /\ prediction_history' = pass'.fan_out.history
    /\ UNCHANGED <<config_manager, isl_modules_initialized, modules,
                   model_loaded, last, selection, frame_no, consumed,
                   detection_call, validation, module_call, merge_call,
                   config_version>>

\* "if predictions": the strategy is read, or the pass answers low_confidence
ReadStrategy ==
    /\ pass.pc = "strategy"
    /\ IF pass.fan_out.predictions = <<>>
       THEN /\ pass' = [pass EXCEPT !.pc = "done"]
            /\ Returned(AfterFanOut(config_manager, model_loaded, pass.session,
                                    pass.frame, pass.fan_out, NoPrediction))
       ELSE /\ pass' = [pass EXCEPT
                         !.pc = "select",
                         !.strategy = get_prediction_strategy(config_manager),
                         !.seen = @ \cup {config_version}]
            /\ UNCHANGED <<buffers, prediction_history, last>>
    /\ UNCHANGED <<config_manager, isl_modules_initialized, modules,
                   model_loaded, selection, frame_no, consumed, detection_call,
                   validation, module_call, merge_call, config_version>>

\* select_final_prediction reads the priorities when it sorts by them
PriorityRead(predictions, strategy) ==
    Len(predictions) > 1 /\ strategy = "priority"

\* select_final_prediction under the strategy read before, and the return
SelectAndReturn ==
    /\ pass.pc = "select"
    /\ pass' = [pass EXCEPT
                  !.pc = "done",
                  !.seen = IF PriorityRead(pass.fan_out.predictions, pass.strategy)
                           THEN @ \cup {config_version} ELSE @]
    /\ Returned(AfterFanOut(config_manager, model_loaded, pass.session,
                            pass.frame, pass.fan_out,
                            select_final_prediction(config_manager,
                                pass.fan_out.predictions, pass.strategy)))
    /\ UNCHANGED <<config_manager, isl_modules_initialized, modules,
                   model_loaded, selection, frame_no, consumed, detection_call,
                   validation, module_call, merge_call, config_version>>

\* the route handler answers
PassReturn ==
    /\ pass.pc = "done"
    /\ last' = NoCall
    /\ pass' = NoPass
    /\ UNCHANGED <<config_manager, isl_modules_initialized, modules,
                   model_loaded, buffers, prediction_history, selection,
                   frame_no, consumed, detection_call, validation, module_call,
                   merge_call, config_version>>

NextReload ==
    \/ Startup(ReloadConfigs)
    \/ \E cfg \in ReloadConfigs : Reload(cfg)
    \/ \E s \in Sessions : \E in \in ReloadFrames : ReadEnabled(s, in)
    \/ FanOut
    \/ ReadStrategy
    \/ SelectAndReturn
    \/ PassReturn

SpecReload == Init /\ [][NextReload]_vars

----------------------------------------------------------------------------
(* Properties *)

Predicted == last.op = "predict"
GatePassed == Predicted /\ last.face
Tr == last.trace
Res == last.result
Returns(w, c, st) ==
    ~Res.raised /\ Res.word = w /\ Res.confidence = c /\ Res.status = st

\* C1: on the multi-module path a module prediction whose confidence is below
\* the threshold configured for its module is not among the predictions
\* handed to the selection and is not the selected one, whatever the
\* strategy; a prediction whose confidence equals the threshold is kept
C1_ThresholdGate ==
    (Predicted /\ Tr.multi_run) =>
        /\ \A m \in Modules :
             LET p == Tr.returned[m]
             IN  p # NoPrediction =>
                   IF p.confidence < config_manager.threshold[m]
                   THEN ~InSeq(p, Tr.predictions) /\ Tr.selected # p
                   ELSE InSeq(p, Tr.predictions)
        /\ \A i \in 1..Len(Tr.predictions) :
             Tr.predictions[i] = Tr.returned[Tr.predictions[i].module_name]

\* C1 witness: one prediction dropped below its threshold, one kept at
\* exactly its threshold, and the pass returned a word
C1_Witness ==
    /\ Predicted /\ Tr.multi_run /\ Res.status = "ready"
    /\ \E m \in Modules :
         /\ Tr.returned[m] # NoPrediction
         /\ Tr.returned[m].confidence < config_manager.threshold[m]
    /\ \E m \in Modules :
         /\ Tr.returned[m] # NoPrediction
         /\ Tr.returned[m].confidence = config_manager.threshold[m]
         /\ InSeq(Tr.returned[m], Tr.predictions)

\* the tuple returned for frame in of session s from the current state, under
\* configuration cm
PassResult(cm, s, in) ==
    predict_from_raw_frame(cm, isl_modules_initialized, modules, model_loaded,
                           buffers, prediction_history, s, in).result
PassTrace(s, in) ==
    predict_from_raw_frame(config_manager, isl_modules_initialized, modules,
                           model_loaded, buffers, prediction_history, s, in).trace
WithoutModule(cm, m) == [cm EXCEPT !.enabled = @ \ {m}]
ModuleInput(in, m) ==
    CASE m = "detection" -> in.det
      [] m = "recognition" -> in.rec
      [] OTHER -> in.trans
\* the frames of session s on which module m runs and its predict raises
ThrowingFrames(s, m) ==
    { in \in CompletingFrames(s) :
        in.face /\ Runs(m) /\ ModuleInput(in, m).kind = "throw" }

\* C2 as stated: when an enabled module's predict raises, the returned tuple
\* equals that of the same pass with the module absent from the enabled set,
\* for every set of enabled modules
C2_Original ==
    last.op = "none" =>
        \A s \in Sessions, m \in Modules : \A in \in ThrowingFrames(s, m) :
            PassResult(config_manager, s, in)
                = PassResult(WithoutModule(config_manager, m), s, in)

\* C2 amended: when an enabled module's predict raises, every other enabled
\* module with an instance is still invoked; if another module is enabled the
\* returned tuple equals that of the same pass with the raising module
\* absent, and if it is the only enabled module the pass returns
\* (None, 0.0, "low_confidence")
C2_FailureIsolation ==
    last.op = "none" =>
        \A s \in Sessions, m \in Modules : \A in \in ThrowingFrames(s, m) :
            /\ \A o \in Modules : Runs(o) => o \in PassTrace(s, in).invoked
            /\ config_manager.enabled # {m} =>
                 PassResult(config_manager, s, in)
                     = PassResult(WithoutModule(config_manager, m), s, in)
            /\ config_manager.enabled = {m} =>
                 PassResult(config_manager, s, in)
                     = Result("none", 0, "low_confidence", 0)

\* C2 witness: a pass in which one module raised and another module's
\* prediction was returned
C2_Witness ==
    /\ Predicted /\ Tr.threw # {} /\ Res.status = "ready"
    /\ \E m \in Tr.invoked \ Tr.threw : Tr.selected = Tr.returned[m]

\* C3: predict_from_raw_frame always returns a (word, confidence, status)
\* tuple and never raises, whichever collaborator fails (face gate,
\* extractor, module, legacy model), on the multi-module and the legacy path
C3_NeverRaises ==
    Predicted =>
        /\ ~Res.raised
        /\ Res.status \in {"no_face", "ready", "low_confidence", "collecting",
                           "mock_ready", "no_model"}

FallbackEnabled == config_manager.exists /\ config_manager.fallback_to_existing_lstm

\* C4 as stated: with the legacy fallback enabled, a gate-passing frame runs
\* the legacy path exactly when no module is enabled or the multi-module path
\* raised; with a module enabled and no raise the result comes from the
\* multi-module path and the legacy path is not run
C4_Original ==
    (GatePassed /\ FallbackEnabled) =>
        /\ Tr.legacy_run <=> (config_manager.enabled = {} \/ Tr.multi_raised)
        /\ (config_manager.enabled # {} /\ ~Tr.multi_raised) =>
              (Tr.multi_run /\ ~Tr.legacy_run)

\* C4 amended: with the legacy fallback enabled, a gate-passing frame runs the
\* legacy path exactly when the multi-module system is not initialized, no
\* module is enabled, or the multi-module path raised; initialized, with a
\* module enabled and no raise, the result comes from the multi-module path
\* and the legacy path is not run
C4_FallbackChain ==
    (GatePassed /\ FallbackEnabled) =>
        /\ Tr.legacy_run <=> \/ ~isl_modules_initialized
                             \/ config_manager.enabled = {}
                             \/ Tr.multi_raised
        /\ (isl_modules_initialized /\ config_manager.enabled # {}
              /\ ~Tr.multi_raised) =>
              /\ Tr.multi_run /\ ~Tr.legacy_run
              /\ Res.status \in {"ready", "low_confidence"}
              /\ Res.status = "ready" =>
                    (InSeq(Tr.selected, Tr.predictions)
                       /\ Res.word = Tr.selected.word
                       /\ Res.confidence = Tr.selected.confidence)

\* C4 witness: the multi-module path raised after a module ran and the
\* legacy path served the frame
C4_Witness ==
    /\ GatePassed /\ FallbackEnabled
    /\ Tr.multi_raised /\ Tr.invoked # {} /\ Tr.legacy_run
    /\ Res.status = "collecting"

NoModuleEnabled == config_manager.enabled = {}

C6_NoModel ==
    (GatePassed /\ config_manager.exists /\ NoModuleEnabled
       /\ ~config_manager.fallback_to_existing_lstm) =>
        /\ Returns("none", 0, "no_model")
        /\ last.buffers_unchanged /\ last.history_unchanged
        /\ ~Tr.multi_run /\ ~Tr.legacy_run /\ last.extractions = 0

\* C6 witness: a configuration is loaded with no module enabled and the
\* fallback off, and a gate-passing frame was answered
C6_Witness ==
    /\ GatePassed /\ config_manager.exists /\ NoModuleEnabled
    /\ ~config_manager.fallback_to_existing_lstm
    /\ Res.status = "no_model"

\* C7: while the ISL system is not initialized (initialize_isl_modules has
\* not run, or failed) a gate-passing frame is served by the legacy LSTM
\* path: appended to the session buffer, "collecting" until the buffer is
\* ready, then the legacy word with "ready"
C7_UninitializedUsesLegacy ==
    (GatePassed /\ ~isl_modules_initialized
       /\ (config_manager.exists => config_manager.fallback_to_existing_lstm)) =>
        /\ Tr.legacy_run
        /\ Res.status # "no_model"

\* C8: with modules enabled but none available (no instance), and the legacy
\* fallback enabled, a gate-passing frame is served by the legacy path and
\* not answered "low_confidence" by the multi-module path
C8_UnavailableUsesLegacy ==
    (GatePassed /\ isl_modules_initialized /\ FallbackEnabled
       /\ ~NoModuleEnabled /\ config_manager.enabled \cap modules = {}) =>
        /\ Tr.legacy_run
        /\ ~(Tr.multi_run /\ Res.status = "low_confidence")

\* C9: when the face gate fails the call returns (None, 0.0, "no_face"),
\* invokes no module's predict, performs no keypoint extraction, and leaves
\* every session buffer and the smoothing history unchanged
C9_NoFace ==
    (Predicted /\ ~last.face) =>
        /\ Returns("none", 0, "no_face")
        /\ Tr.invoked = {} /\ ~Tr.multi_run /\ ~Tr.legacy_run
        /\ last.extractions = 0
        /\ last.buffers_unchanged /\ last.history_unchanged

\* C9 witness: a faceless frame arrives while modules are running, a buffer
\* is partly filled and the smoothing history is not empty
C9_Witness ==
    /\ Predicted /\ ~last.face
    /\ isl_modules_initialized /\ modules # {}
    /\ prediction_history # <<>>
    /\ \E s \in DOMAIN buffers : buffers[s] # <<>>

\* number of surviving predictions of the pass that name word w
VotesFor(w) ==
    Cardinality({ i \in 1..Len(Tr.predictions) : Tr.predictions[i].word = w })
\* w alone has the most votes among the surviving predictions
UniqueWinner(w) ==
    /\ VotesFor(w) > 0
    /\ \A v \in Words \ {w} : VotesFor(v) < VotesFor(w)

\* C10: under the "voting" strategy with at least two surviving predictions
\* and one word holding strictly the most votes, the returned prediction is
\* the first one of the highest confidence within that word's group, even
\* when a prediction of another word has a higher confidence
C10_VotingWinner ==
    (Predicted /\ Tr.multi_run /\ ~Tr.multi_raised
       /\ config_manager.prediction_strategy = "voting"
       /\ Len(Tr.predictions) >= 2) =>
        \A w \in Words : UniqueWinner(w) =>
            /\ Tr.selected.word = w
            /\ \E i \in 1..Len(Tr.predictions) :
                 /\ Tr.predictions[i] = Tr.selected
                 /\ \A j \in 1..Len(Tr.predictions) :
                      Tr.predictions[j].word = w =>
                         \/ Tr.predictions[j].confidence < Tr.selected.confidence
                         \/ /\ Tr.predictions[j].confidence = Tr.selected.confidence
                            /\ i <= j
            /\ Returns(w, Tr.selected.confidence, "ready")

\* C10 witness: two modules agree on a word at a lower confidence than the
\* third module's different word, and the agreed word is returned
C10_Witness ==
    /\ Predicted /\ Tr.multi_run
    /\ config_manager.prediction_strategy = "voting"
    /\ Len(Tr.predictions) = 3
    /\ \E w \in Words :
         /\ UniqueWinner(w) /\ Res.word = w
         /\ \E i \in 1..Len(Tr.predictions) :
              /\ Tr.predictions[i].word # w
              /\ Tr.predictions[i].confidence > Res.confidence

Selected == selection.op \in {"select", "again"}
SelList == selection.predictions
SelIndices == 1..Len(SelList)
\* number of predictions of the direct call's list that name word w
SelVotes(w) == Cardinality({ i \in SelIndices : SelList[i].word = w })
\* the words holding the largest vote count in the direct call's list
SelLeaders == { w \in Words : /\ SelVotes(w) > 0
                              /\ \A v \in Words : SelVotes(v) <= SelVotes(w) }
\* index i holds the first prediction of the largest confidence among idx
FirstMaxIn(i, idx) ==
    /\ i \in idx
    /\ \A j \in idx : \/ SelList[j].confidence < SelList[i].confidence
                      \/ SelList[j].confidence = SelList[i].confidence /\ i <= j
Priority(i) == config_manager.priority[SelList[i].module_name]

\* C11: under "voting", when two or more words tie for the largest vote
\* count, select_final_prediction returns the prediction of the highest
\* confidence across all survivors, the first such in list order, whatever
\* its word's group
C11_VotingTie ==
    (Selected /\ selection.strategy = "voting" /\ Cardinality(SelLeaders) >= 2) =>
        \E i \in SelIndices :
            FirstMaxIn(i, SelIndices) /\ selection.result = SelList[i]

\* C11 witness: two words tie and the answer is a later prediction of a
\* higher confidence than the first one
C11_Witness ==
    /\ Selected /\ selection.strategy = "voting" /\ Cardinality(SelLeaders) >= 2
    /\ selection.result = SelList[2]
    /\ SelList[1].confidence < SelList[2].confidence

\* C12: under "priority" with two or more survivors, select_final_prediction
\* returns a prediction whose module has the smallest configured priority
\* number among the survivors, regardless of confidence, and among survivors
\* of that priority the one earliest in the input list
C12_PriorityOrder ==
    (Selected /\ selection.strategy = "priority" /\ Len(SelList) >= 2) =>
        \E i \in SelIndices :
            /\ selection.result = SelList[i]
            /\ \A j \in SelIndices :
                 \/ Priority(i) < Priority(j)
                 \/ Priority(i) = Priority(j) /\ i <= j

\* C12 witness: the answer has a lower confidence than a survivor of a larger
\* priority number, and a later survivor of the same priority is more confident
C12_Witness ==
    /\ Selected /\ selection.strategy = "priority" /\ Len(SelList) = 3
    /\ \E i, j, k \in SelIndices :
         /\ selection.result = SelList[i]
         /\ i < j /\ Priority(j) = Priority(i)
         /\ SelList[j].module_name # SelList[i].module_name
         /\ SelList[j].confidence > SelList[i].confidence
         /\ Priority(k) > Priority(i)
         /\ SelList[k].confidence > SelList[i].confidence

\* C13: under "highest_confidence" with two or more survivors,
\* select_final_prediction returns a prediction of maximal confidence, and
\* when several share the maximum the one earliest in the input list
C13_HighestConfidence ==
    (Selected /\ selection.strategy = "highest_confidence" /\ Len(SelList) >= 2) =>
        \E i \in SelIndices :
            FirstMaxIn(i, SelIndices) /\ selection.result = SelList[i]

\* C13 witness: two different predictions share the maximum and the earlier
\* one, not the first of the list, is returned
C13_Witness ==
    /\ Selected /\ selection.strategy = "highest_confidence" /\ Len(SelList) = 3
    /\ selection.result = SelList[2]
    /\ SelList[3].confidence = SelList[2].confidence
    /\ SelList[3] # SelList[2]

\* C14: for every non-empty list and every strategy name outside {priority,
\* highest_confidence, voting}, select_final_prediction returns exactly what
\* it returns for "highest_confidence" on the same list, a prediction of the
\* list, and does not fail
C14_UnknownStrategy ==
    (Selected /\ SelList # <<>>
       /\ selection.strategy \notin {"priority", "highest_confidence", "voting"}) =>
        /\ selection.result =
              select_final_prediction(config_manager, SelList, "highest_confidence")
        /\ \E i \in SelIndices :
              FirstMaxIn(i, SelIndices) /\ selection.result = SelList[i]

\* C14 witness: under a misspelt strategy name the answer is neither the first
\* prediction nor the one of the top priority
C14_Witness ==
    /\ Selected /\ selection.strategy = "Voting" /\ Len(SelList) = 3
    /\ selection.result = SelList[3]
    /\ \E j \in SelIndices : Priority(j) < Priority(3)

C15_EmptyAndSingle ==
    (Predicted /\ Tr.multi_run /\ ~Tr.multi_raised) =>
        /\ Tr.predictions = <<>> =>
             /\ Returns("none", 0, "low_confidence")
             /\ ~Tr.legacy_run
             /\ \A st \in StrategyNames :
                  select_final_prediction(config_manager, <<>>, st) = NoPrediction
        /\ Len(Tr.predictions) = 1 =>
             /\ Tr.selected = Tr.predictions[1]
             /\ Returns(Tr.predictions[1].word, Tr.predictions[1].confidence, "ready")
             /\ ~Tr.legacy_run
             /\ \A st \in StrategyNames :
                  select_final_prediction(config_manager, Tr.predictions, st)
                      = Tr.predictions[1]

\* C15 witness: under "priority" the lone survivor comes from the module of
\* the largest priority number, the other modules having answered below
\* their thresholds or not at all
C15_Witness ==
    /\ Predicted /\ Tr.multi_run /\ Res.status = "ready"
    /\ config_manager.prediction_strategy = "priority"
    /\ Len(Tr.predictions) = 1
    /\ Cardinality(Tr.invoked) >= 2
    /\ \A m \in Modules :
         config_manager.priority[m]
            <= config_manager.priority[Tr.predictions[1].module_name]

Before(s) == BufferOf(buffers, s)
After(s) == BufferOf(buffers', s)

\* the step appended one correctly-dimensioned vector to the window of s
AppendedTo(s) ==
    \E kp \in NumberedVectors : kp.dim = KEYPOINT_DIM /\ AppendVector(s, kp)

\* C17: for a session buffer of capacity N that starts empty, under any
\* sequence of appends of correctly-dimensioned vectors, is_ready is false
\* after each of the first N-1 appends, true at the N-th and after every
\* further append until the buffer is cleared; is_ready holds iff the
\* length equals N
C17_ReadyAtCapacity ==
    [][\A s \in BufferSessions :
          /\ Len(After(s)) <= BUFFER_SIZE
          /\ is_ready(After(s)) <=> Len(After(s)) = BUFFER_SIZE
          /\ AppendedTo(s) =>
               /\ Len(Before(s)) < BUFFER_SIZE - 1 =>
                    (~is_ready(After(s)) /\ Len(After(s)) = Len(Before(s)) + 1)
               /\ Len(Before(s)) = BUFFER_SIZE - 1 =>
                    (~is_ready(Before(s)) /\ is_ready(After(s)))
               /\ is_ready(Before(s)) => is_ready(After(s))
          /\ (ClearWindow(s) \/ (ClearBuffer(s) /\ s \in DOMAIN buffers)) =>
               (After(s) = <<>> /\ ~is_ready(After(s)))
      ]_vars

\* C17 witness: a window that was full took one more vector, dropped its
\* oldest and is still ready
C17_Witness ==
    \E s \in DOMAIN buffers :
        /\ is_ready(buffers[s])
        /\ frame_no = BUFFER_SIZE + 1
        /\ buffers[s] = [i \in 1..BUFFER_SIZE |-> i + 1]
        /\ DOMAIN buffers = {s} /\ DOMAIN consumed = {}
        /\ ~config_manager.exists

Elements(q) == { q[i] : i \in 1..Len(q) }

\* the recognition module just produced a prediction at or above the clear
\* threshold for session s
ClearingPrediction(s) ==
    /\ last.op = "none" /\ last'.op = "predict" /\ last'.session = s
    /\ last'.trace.returned["recognition"] # NoPrediction
    /\ last'.trace.returned["recognition"].confidence >= CLEAR_THRESHOLD

\* C18: when RecognitionModule.predict produces a prediction whose confidence
\* is at or above the clear threshold, the session's buffer is empty when
\* predict returns, and the next append for that session starts a fresh
\* window of length 1 holding none of the vectors of the consumed window
C18_ClearStartsFreshWindow ==
    [][\A s \in BufferSessions :
          /\ ClearingPrediction(s) =>
               /\ s \in DOMAIN buffers' /\ buffers'[s] = <<>>
               /\ Len(consumed'[s]) = BUFFER_SIZE
               /\ consumed'[s][BUFFER_SIZE] = frame_no'
          /\ (s \in DOMAIN consumed /\ Before(s) = <<>> /\ After(s) # <<>>) =>
               /\ After(s) = <<frame_no'>>
               /\ Elements(After(s)) \cap Elements(consumed[s]) = {}
      ]_vars

\* C18 witness: the recognition module consumed and cleared the window of a
\* session, and the session's next frame is alone in the buffer
C18_Witness ==
    /\ Predicted /\ "recognition" \in Tr.invoked
    /\ last.session \in DOMAIN consumed
    /\ Len(buffers[last.session]) = 1
    /\ buffers[last.session][1] = frame_no
    /\ buffers[last.session][1] \notin Elements(consumed[last.session])
    /\ \E i \in 1..Len(consumed[last.session]) :
         consumed[last.session][i] = frame_no - 1

\* the step is an operation performed for session s
OperationFor(s) ==
    \/ last.op = "none" /\ last'.op = "predict" /\ last'.session = s
    \/ \E kp \in NumberedVectors : AppendVector(s, kp)
    \/ ClearWindow(s)
    \/ ClearBuffer(s)
    \/ DeleteBuffer(s)

\* C20: session buffers are isolated: an operation performed for one session
\* (a frame on the multi-module or the legacy path, append, clear,
\* clear_buffer, delete_buffer) leaves the existence, contents, length and
\* readiness of every other session's buffer unchanged, under any
\* interleaving of calls for different sessions
C20_SessionIsolation ==
    [][\A s \in BufferSessions : \A t \in BufferSessions \ {s} :
          OperationFor(s) =>
              /\ (t \in DOMAIN buffers') <=> (t \in DOMAIN buffers)
              /\ After(t) = Before(t)
              /\ Len(After(t)) = Len(Before(t))
              /\ is_ready(After(t)) <=> is_ready(Before(t))
      ]_vars

\* C20 witness: the recognition module consumed and cleared one session's
\* window while the other session's window stays full
C20_Witness ==
    /\ Predicted /\ "recognition" \in Tr.invoked /\ Res.status = "ready"
    /\ buffers[last.session] = <<>>
    /\ last.session \in DOMAIN consumed
    /\ \E t \in DOMAIN buffers \ {last.session} : is_ready(buffers[t])

Detected ==
    detection_call.op \in {"predict", "again"} /\ detection_call.scores.kind = "scores"
Gap == detection_call.scores.conf - detection_call.scores.second

\* C19: DetectionModule.predict returns none whenever the gap between the
\* top-1 and top-2 class probabilities is smaller than 0.15, and a module
\* with no prior history returns an accepted prediction when the gap is at
\* least 0.15 and the top-1 probability passes the confidence threshold
C19_MarginCheck ==
    Detected =>
        /\ Gap < MARGIN =>
             /\ detection_call.result = NoPrediction
             /\ prediction_history = detection_call.history
        /\ (detection_call.history = <<>> /\ Gap >= MARGIN
              /\ detection_call.scores.conf >= DETECTION_THRESHOLD) =>
             detection_call.result =
                 Pred("detection", detection_call.scores.word,
                      detection_call.scores.conf)

\* C19 witness: probabilities 0.80 and 0.70 are rejected by a module that has
\* just accepted 0.80 against 0.50 for the same word
C19_Witness ==
    /\ Detected /\ Gap = 10 /\ detection_call.scores.conf = 80
    /\ detection_call.result = NoPrediction
    /\ detection_call.history = <<detection_call.scores.word>>

\* C21 as stated: the smoothing history is per session, so what predict
\* answers for a frame of a session is what it would answer had only that
\* session's frames been submitted
C21_PerSessionHistory ==
    detection_call.op = "predict" =>
        detection_call.result = detection_call.alone

\* C21: the frame of another session in between turns an accepted word of
\* the first session into none
C21_SharedHistory ==
    /\ detection_call.op = "predict"
    /\ detection_call.session = "s1"
    /\ detection_call.own["s1"] = <<"A", "A">>
    /\ detection_call.history = <<"A", "B">>
    /\ detection_call.alone = Pred("detection", "A", 80)
    /\ detection_call.result = NoPrediction

\* what the most recent call of predict answered
Answer ==
    IF detection_call.op = "again" THEN detection_call.again
    ELSE detection_call.result

\* C25 as stated: predict called twice in succession on the same frame
\* answers none both times or the same prediction both times
C25_RepeatedFrame ==
    detection_call.op = "again" =>
        detection_call.again = detection_call.result

\* C25: a word that differs from the last accepted one is refused on the
\* first call and accepted on the second call of the same frame
C25_SecondCallDiffers ==
    /\ detection_call.op = "again"
    /\ detection_call.history = <<"A">>
    /\ detection_call.scores.word = "B"
    /\ detection_call.result = NoPrediction
    /\ detection_call.again = Pred("detection", "B", detection_call.scores.conf)
    /\ prediction_history = <<"A", "B", "B">>

\* C29: the history never holds more than 3 words; predict answers none
\* whenever the two most recent words of the history disagree, and a
\* prediction for a word only if that word is the newest entry of the history
\* and the entry before it, when there is one, is the same word
C29_Smoothing ==
    /\ Len(prediction_history) <= HISTORY_SIZE
    /\ Detected =>
         /\ Inconsistent(prediction_history) => Answer = NoPrediction
         /\ Answer # NoPrediction =>
              /\ Answer.word = detection_call.scores.word
              /\ prediction_history # <<>>
              /\ \A i \in {Len(prediction_history) - 1, Len(prediction_history)} :
                    i >= 1 => prediction_history[i] = Answer.word
         /\ (detection_call.op = "predict" /\ detection_call.result # NoPrediction
               /\ detection_call.history # <<>>) =>
              detection_call.history[Len(detection_call.history)] =
                  detection_call.result.word

\* C29 witness: with a full history that ends in two B, a B is accepted and
\* the oldest word leaves the history
C29_Witness ==
    /\ detection_call.op = "predict"
    /\ detection_call.history = <<"A", "B", "B">>
    /\ detection_call.result = Pred("detection", "B", detection_call.scores.conf)
    /\ prediction_history = <<"B", "B", "B">>

\* the configuration satisfies every rule of validate
InRange(v, lo, hi) == v.kind = "number" /\ lo <= v.value /\ v.value <= hi

WellFormed(cfg) ==
    /\ cfg.prediction_strategy \in {"priority", "highest_confidence", "voting"}
    /\ \A name \in DOMAIN cfg.modules :
         /\ InRange(cfg.modules[name].confidence_threshold, 0, 100)
         /\ cfg.modules[name].priority.kind = "number"
         /\ cfg.modules[name].priority.value >= 1
         /\ cfg.modules[name].enabled => cfg.modules[name].model_path # ""

\* C22 as stated: validate never raises and never changes the configuration;
\* is_valid holds iff errors is empty iff the strategy is a known one, every
\* threshold lies in [0,1], every priority is at least 1 and every enabled
\* module has a model path
C22_Validate ==
    validation.op = "validate" =>
        /\ ~validation.raised
        /\ validation.after = validation.config
        /\ validation.is_valid <=> validation.errors = <<>>
        /\ validation.is_valid <=> WellFormed(validation.config)

\* C22: a threshold that is no number makes validate raise on a
\* configuration that is otherwise in order
C22_ValidateRaises ==
    /\ validation.op = "validate"
    /\ validation.raised
    /\ validation.config.prediction_strategy = "voting"
    /\ \A name \in DOMAIN validation.config.modules :
         /\ validation.config.modules[name].priority = Number(1)
         /\ validation.config.modules[name].model_path # ""
         /\ validation.config.modules[name].confidence_threshold.kind # "number"

\* where validate returns, it returns what C22 says
C22_ValidateReturns ==
    (validation.op = "validate" /\ ~validation.raised) =>
        /\ validation.after = validation.config
        /\ validation.is_valid <=> validation.errors = <<>>
        /\ validation.is_valid <=> WellFormed(validation.config)

\* something failed inside the call: the extraction, the classifier or the
\* label lookup
FailedInside ==
    \/ module_call.scores.kind # "scores"
    \/ module_call.module = "recognition" /\ module_call.kp.kind = "raise"

\* C23: predict of the detection, recognition and translation modules never
\* raises; a failure of the extraction, the buffering, the classifier or the
\* label lookup makes it return none
C23_ModulesNeverRaise ==
    module_call.op = "predict" =>
        /\ ~module_call.threw
        /\ FailedInside => module_call.result = NoPrediction

\* C23 witness: the classifier of the recognition module raises on a full
\* window; predict returns none and the frame stays in the buffer
C23_Witness ==
    /\ module_call.op = "predict"
    /\ module_call.module = "recognition"
    /\ module_call.scores.kind = "fail"
    /\ module_call.kp.kind = "vector"
    /\ is_ready(BufferOf(buffers, module_call.session))
    /\ ~module_call.threw
    /\ module_call.result = NoPrediction

\* the diagnostics of the response, and the outputs of the pass that passed
\* the threshold gate
Details == last.module_details
Survivors ==
    { Tr.returned[m] : m \in { n \in Tr.invoked :
                                /\ Tr.returned[n] # NoPrediction
                                /\ PassesThreshold(config_manager, Tr.returned[n]) } }
Listed == { Details.predictions[i] : i \in 1..Len(Details.predictions) }

\* the diagnostics list the survivors, most confident first, and name the
\* module of the final pick and the configured strategy
DescribesThePass ==
    /\ Details.present
    /\ Listed = Survivors
    /\ Len(Details.predictions) = Cardinality(Survivors)
    /\ \A i, j \in 1..Len(Details.predictions) :
         i < j => Details.predictions[i].confidence >= Details.predictions[j].confidence
    /\ Details.selected.kind = "set"
    /\ Details.selected.reason = get_prediction_strategy(config_manager)
    /\ \E p \in Listed :
         /\ p.module_name = Details.selected.module
         /\ p.word = Res.word
         /\ p.confidence = Res.confidence

DetailsOfReady ==
    Predicted /\ last.return_module_details /\ ~Res.raised /\ Res.status = "ready"

\* C24 as stated: whenever diagnostics are requested and the pass ends with
\* status ready, the diagnostics list the survivors ranked by confidence and
\* name the module and strategy of the final pick
C24_Original == DetailsOfReady => DescribesThePass

\* C24: diagnostics requested and status ready reached by the multi-module
\* step: the diagnostics list exactly the survivors of the threshold gate,
\* ranked by confidence in descending order, and name the module of the final
\* pick, which is a listed survivor whose word and confidence are returned,
\* and the configured strategy; a ready that comes from the legacy fallback
\* carries no diagnostics or diagnostics without a selected entry
C24_Diagnostics ==
    DetailsOfReady =>
        /\ (Tr.multi_run /\ ~Tr.multi_raised) => DescribesThePass
        /\ Tr.legacy_run => (~Details.present \/ Details.selected.kind = "absent")

\* C24 witness: three survivors; the most confident one ran last and is
\* listed first, the pick by priority is listed last
C24_Witness ==
    /\ DetailsOfReady
    /\ Tr.multi_run /\ ~Tr.multi_raised
    /\ Len(Details.predictions) = 3
    /\ Details.predictions # Tr.predictions
    /\ Details.predictions[1].module_name = "translation"
    /\ Details.predictions[3].module_name = Details.selected.module
    /\ Details.predictions[3].confidence < Details.predictions[1].confidence

\* the newest BUFFER_SIZE elements of q, or all of q when it has fewer
MostRecent(q) ==
    IF Len(q) <= BUFFER_SIZE THEN q
    ELSE SubSeq(q, Len(q) - BUFFER_SIZE + 1, Len(q))

\* C26: a session buffer never holds more than N vectors; each append of a
\* correctly-dimensioned vector leaves the most recent min(k, N) vectors
\* appended since the last clear, in arrival order, the oldest evicted first;
\* get_sequence returns the N vectors oldest first on a ready buffer, None on
\* any other, and leaves the buffer as it was
C26_BufferContents ==
    [][\A s \in BufferSessions :
          /\ Len(After(s)) <= BUFFER_SIZE
          /\ \A i, j \in 1..Len(After(s)) : i < j => After(s)[i] < After(s)[j]
          /\ AppendedTo(s) =>
               After(s) = MostRecent(Append(Before(s), frame_no'))
          /\ (ClearWindow(s) \/ (ClearBuffer(s) /\ s \in DOMAIN buffers)) =>
               After(s) = <<>>
          /\ GetSequence(s) => After(s) = Before(s)
          /\ get_sequence(After(s)) =
               IF Len(After(s)) = BUFFER_SIZE
               THEN [ready |-> TRUE, vectors |-> After(s)] ELSE NotReady
      ]_vars

\* C26 witness: N + 1 vectors were appended to a cleared buffer; it holds the
\* last N of them and get_sequence returns them
C26_Witness ==
    \E s \in DOMAIN buffers :
        /\ frame_no = BUFFER_SIZE + 2
        /\ buffers[s] = [i \in 1..BUFFER_SIZE |-> i + 2]
        /\ get_sequence(buffers[s]).ready
        /\ get_sequence(buffers[s]).vectors = buffers[s]
        /\ ~config_manager.exists /\ last.op = "none"

\* the step submitted a frame of session s whose vector has the wrong size
WrongSizeFrame(s) ==
    \E in \in NumberedFrames(s) : in.kp.dim # KEYPOINT_DIM /\ SubmitFrame(s, in)

\* C27: an append of a vector of the wrong size does not raise and leaves the
\* buffer's contents, length, is_ready and fill ratio as they were; a legacy
\* pass that extracted such a vector goes on with the vectors buffered before:
\* it reports the old fill level, or classifies the old window
C27_WrongSizeDropped ==
    [][\A s \in BufferSessions :
          /\ (\E kp \in NumberedVectors :
                 kp.dim # KEYPOINT_DIM /\ AppendVector(s, kp)) =>
               /\ After(s) = Before(s)
               /\ Len(After(s)) = Len(Before(s))
               /\ is_ready(After(s)) <=> is_ready(Before(s))
               /\ FillPercent(After(s)) = FillPercent(Before(s))
          /\ (WrongSizeFrame(s) /\ last'.trace.legacy_run) =>
               /\ ~is_ready(Before(s)) =>
                    /\ last'.result.status = "collecting"
                    /\ last'.result.progress = FillPercent(Before(s))
                    /\ After(s) = Before(s)
               /\ is_ready(Before(s)) =>
                    /\ last'.result.status \in
                         {"mock_ready", "low_confidence", "ready", "exception"}
                    /\ last'.result.status # "ready" => After(s) = Before(s)
                    /\ last'.result.status = "ready" =>
                         (After(s) = <<>> /\ consumed'[s] = Before(s))
      ]_vars

\* C27 witness: the legacy model has classified a full window once more on a
\* frame whose vector was dropped, and the window was cleared
C27_Witness ==
    /\ last.op = "predict" /\ last.trace.legacy_run
    /\ last.result.status = "ready"
    /\ last.session \in DOMAIN consumed
    /\ Len(consumed[last.session]) = BUFFER_SIZE
    /\ consumed[last.session][BUFFER_SIZE] < frame_no
    /\ buffers[last.session] = <<>>

\* the recognition module just produced a prediction below the clear
\* threshold for session s
KeepingPrediction(s) ==
    /\ last.op = "none" /\ last'.op = "predict" /\ last'.session = s
    /\ last'.trace.returned["recognition"] # NoPrediction
    /\ last'.trace.returned["recognition"].confidence < CLEAR_THRESHOLD

\* the recognition module just took a vector of the right size for session s
RecognitionFrame(s) ==
    /\ last.op = "none" /\ last'.op = "predict" /\ last'.session = s
    /\ "recognition" \in last'.trace.invoked
    /\ buffers' # buffers

\* C28: when RecognitionModule.predict produces a prediction whose confidence
\* is at or above the base threshold and below the clear threshold, the
\* session's buffer is left intact, N vectors and ready, and the next frame is
\* evaluated on the window slid forward by exactly one vector
C28_WindowSlides ==
    [][\A s \in BufferSessions :
          /\ KeepingPrediction(s) =>
               /\ last'.trace.returned["recognition"].confidence
                    >= RECOGNITION_THRESHOLD
               /\ Len(After(s)) = BUFFER_SIZE /\ is_ready(After(s))
               /\ After(s) = MostRecent(Append(Before(s), frame_no'))
          /\ (RecognitionFrame(s) /\ is_ready(Before(s))) =>
               /\ After(s) \in {<<>>, Append(Tail(Before(s)), frame_no')}
               /\ After(s) = <<>> =>
                    consumed'[s] = Append(Tail(Before(s)), frame_no')
      ]_vars

\* C28 witness: a prediction just below the clear threshold on a window
\* that has already slid; the window is still full
C28_Witness ==
    /\ last.op = "predict"
    /\ last.trace.returned["recognition"] # NoPrediction
    /\ last.trace.returned["recognition"].confidence = CLEAR_THRESHOLD - 1
    /\ frame_no > BUFFER_SIZE
    /\ buffers[last.session] =
          [i \in 1..BUFFER_SIZE |-> frame_no - BUFFER_SIZE + i]

\* the pass kept a prediction of module m
Kept(m) ==
    \E i \in 1..Len(last'.trace.predictions) :
        last'.trace.predictions[i].module_name = m

\* the threshold a module was constructed with
OwnThreshold(m) ==
    CASE m = "detection" -> DETECTION_THRESHOLD
      [] m = "recognition" -> RECOGNITION_THRESHOLD
      [] OTHER -> TRANSLATION_THRESHOLD

\* the step is a pass in which module m classified with confidence c
Classified(m, c) ==
    \E s \in Sessions : \E in \in ThresholdFrames(s) :
        /\ PredictFromRawFrame(s, in)
        /\ m \in last'.trace.invoked
        /\ ModuleInput(in, m).kind = "scores"
        /\ ModuleInput(in, m).conf = c

\* C30 as stated: after a change of a module's configured threshold, raised
\* or lowered, the next pass keeps exactly the outputs of that module whose
\* confidence is at or above the configured threshold
C30_LiveThreshold ==
    [][\A m \in Modules : \A c \in {60, 80} :
          Classified(m, c) =>
              (Kept(m) <=> c >= get_confidence_threshold(config_manager, m))
      ]_vars

\* C30: with the threshold of the translation module lowered to 0.5, a pass
\* in which its classifier answers 0.6 keeps nothing
C30_LoweredIgnored ==
    /\ last.op = "predict"
    /\ config_manager.enabled = {"translation"}
    /\ get_confidence_threshold(config_manager, "translation") = 50
    /\ "translation" \in last.trace.invoked
    /\ last.trace.returned["translation"] = NoPrediction
    /\ last.trace.predictions = <<>>
    /\ last.result.status = "low_confidence"

\* what the passes do keep: the outputs at or above both the configured
\* threshold and the one the module was constructed with
C30_BothGates ==
    [][\A m \in Modules : \A c \in {60, 80} :
          Classified(m, c) =>
              (Kept(m) <=>
                 /\ c >= get_confidence_threshold(config_manager, m)
                 /\ c >= OwnThreshold(m))
      ]_vars

\* C38: in every result predict_from_raw_frame returns, the word is not None
\* exactly when the status is ready or mock_ready; a result with status
\* no_face, no_model or collecting has no word and confidence 0.0, and a
\* result with status low_confidence has no word
C38_WordIffReady ==
    (Predicted /\ ~Res.raised) =>
        /\ Res.word # "none" <=> Res.status \in {"ready", "mock_ready"}
        /\ Res.status \in {"no_face", "no_model", "collecting"} =>
             (Res.word = "none" /\ Res.confidence = 0)
        /\ Res.status = "low_confidence" => Res.word = "none"

\* C38 witness: the legacy model answered below the confidence threshold; the
\* result carries that confidence and no word
C38_Witness ==
    /\ Predicted /\ ~Res.raised /\ Tr.legacy_run
    /\ Res.status = "low_confidence"
    /\ Res.confidence > 0
    /\ Res.word = "none"

\* the step is the legacy pass of frame in for session s
LegacyPass(s, in) ==
    /\ SubmitFrame(s, in)
    /\ last'.trace.legacy_run
    /\ ~last'.result.raised

\* C37: a legacy pass clears the session buffer if and only if it returns
\* ready; a pass that returns collecting, mock_ready or low_confidence leaves
\* the window as it is after that pass's append, and a low_confidence pass
\* reports the confidence of the model
C37_ClearedIffReady ==
    [][\A s \in BufferSessions : \A in \in NumberedFrames(s) :
          LegacyPass(s, in) =>
              /\ last'.result.status \in
                   {"collecting", "mock_ready", "low_confidence", "ready"}
              /\ last'.result.status = "ready" => After(s) = <<>>
              /\ last'.result.status # "ready" =>
                   After(s) = FrameBufferAppend(Before(s), in.kp)
              /\ last'.result.status \in {"mock_ready", "low_confidence"} =>
                   Len(After(s)) = BUFFER_SIZE
              /\ last'.result.status = "low_confidence" =>
                   last'.result.confidence = in.legacy.conf
      ]_vars

\* C37 witness: a low_confidence pass has left the full window in place
C37_Witness ==
    /\ Predicted /\ ~Res.raised /\ Tr.legacy_run /\ ~Tr.multi_run
    /\ Res.status = "low_confidence" /\ Res.confidence = 50
    /\ frame_no > BUFFER_SIZE
    /\ buffers[last.session] =
          [i \in 1..BUFFER_SIZE |-> frame_no - BUFFER_SIZE + i]

\* the newest half of a window
TrailingHalf(q) == SubSeq(q, Len(q) - (Len(q) \div 2) + 1, Len(q))

\* C34 as stated: after the legacy path has produced a prediction, the
\* session buffer retains the trailing half of the window it classified
C34_RetainsTrailingHalf ==
    [][\A s \in BufferSessions : \A in \in NumberedFrames(s) :
          (LegacyPass(s, in) /\ last'.result.status = "ready") =>
              After(s) = TrailingHalf(FrameBufferAppend(Before(s), in.kp))
      ]_vars

\* C34: the legacy path has produced a prediction and the buffer is empty
C34_Emptied ==
    /\ Predicted /\ ~Res.raised /\ Tr.legacy_run /\ ~Tr.multi_run
    /\ Res.status = "ready"
    /\ last.session \in DOMAIN consumed
    /\ Len(consumed[last.session]) = BUFFER_SIZE
    /\ buffers[last.session] = <<>>

\* the step is the pass of frame in for session s
Pass(s, in) == last.op = "none" /\ PredictFromRawFrame(s, in)

\* recognition extracted and appended, then the legacy path ran in the same
\* pass
BothPathsRan ==
    /\ Predicted /\ ~Res.raised
    /\ "recognition" \in Tr.invoked /\ Tr.legacy_run
    /\ last.extractions = 2

\* C36 as stated: a call of predict_from_raw_frame appends at most one vector
\* to the session buffer on every path: afterwards the buffer is what it
\* was, or that with the frame's vector appended, or empty
C36_AtMostOneAppend ==
    [][\A s \in Sessions : \A in \in FrameInputs(s) :
          Pass(s, in) =>
              After(s) \in {Before(s), FrameBufferAppend(Before(s), in.kp), <<>>}
      ]_vars

\* C36: recognition and the legacy path have both appended the vector of one
\* frame; the legacy path finds the window full and answers from the mock
C36_TwoAppends ==
    /\ BothPathsRan
    /\ Res.status = "mock_ready"
    /\ Len(buffers[last.session]) = BUFFER_SIZE

\* C32 as stated: the legacy path has a buffer of its own for a session, which
\* an append by the recognition module does not change: on the first frame of
\* a session the legacy path finds one vector at most in its window
C32_SeparateBuffers ==
    [][\A s \in Sessions : \A in \in FrameInputs(s) :
          (Pass(s, in) /\ s \notin DOMAIN buffers
              /\ last'.trace.legacy_run /\ ~last'.result.raised) =>
                  /\ last'.result.status = "collecting"
                  /\ last'.result.progress =
                        FillPercent(FrameBufferAppend(<<>>, in.kp))
      ]_vars

\* C32: the legacy path classified a window that recognition had appended to,
\* and its clear emptied the window recognition evaluates
C32_SharedBuffer ==
    /\ BothPathsRan
    /\ Res.status = "ready"
    /\ buffers[last.session] = <<>>

\* recognition classified the window of the pass and cleared it
RecognitionCleared ==
    /\ Predicted /\ Tr.multi_run /\ ~Res.raised
    /\ Tr.returned["recognition"] # NoPrediction
    /\ should_clear_buffer(Tr.returned["recognition"].confidence)

\* C39 as stated: a multi-module pass in which recognition cleared the session
\* buffer returns ready with a word, for every configuration; it never ends
\* with low_confidence
C39_ClearedThenReady ==
    RecognitionCleared => (Res.status = "ready" /\ Res.word # "none")

\* C39: recognition cleared the window at a confidence below the threshold
\* configured for it, and the pass answered low_confidence
C39_ClearedThenLowConfidence ==
    /\ RecognitionCleared
    /\ Tr.returned["recognition"].confidence
          < config_manager.threshold["recognition"]
    /\ Res.status = "low_confidence" /\ Res.word = "none"
    /\ buffers[last.session] = <<>>

\* the corners (x, y, x1, y1) of a box (x, y, w, h)
Corners(box) == <<box[1], box[2], box[1] + box[3], box[2] + box[4]>>

\* the rectangle outer, given by its corners, contains the box
Contains(outer, box) ==
    /\ outer[1] <= Corners(box)[1] /\ outer[2] <= Corners(box)[2]
    /\ Corners(box)[3] <= outer[3] /\ Corners(box)[4] <= outer[4]

\* every rectangle of the coordinate range, by its corners
Rectangles ==
    { <<x, y, x1, y1>> :
        x \in 0..MaxOf(BoxOrigins), y \in 0..MaxOf(BoxOrigins),
        x1 \in 0..(MaxOf(BoxOrigins) + MaxOf(BoxSides)),
        y1 \in 0..(MaxOf(BoxOrigins) + MaxOf(BoxSides)) }

MergedBoxes == { merge_call.hand_boxes[i] : i \in 1..Len(merge_call.hand_boxes) }

\* C35: _merge_hand_boxes maps a non-empty list of boxes (x, y, w, h) to
\* (min x, min y, max(x+w), max(y+h)): the result contains every box of the
\* list, every rectangle that contains them all contains the result, and a
\* list of one box gives (x, y, x+w, y+h)
C35_MergeHandBoxes ==
    (merge_call.op = "merge" /\ merge_call.hand_boxes # <<>>) =>
        /\ ~merge_call.raised
        /\ \A box \in MergedBoxes : Contains(merge_call.result, box)
        /\ \A outer \in Rectangles :
              (\A box \in MergedBoxes : Contains(outer, box)) =>
                  /\ outer[1] <= merge_call.result[1]
                  /\ outer[2] <= merge_call.result[2]
                  /\ merge_call.result[3] <= outer[3]
                  /\ merge_call.result[4] <= outer[4]
        /\ Len(merge_call.hand_boxes) = 1 =>
              merge_call.result = Corners(merge_call.hand_boxes[1])

\* C35 witness: two boxes of which neither contains the other were merged
\* into a rectangle that is the corners of neither
C35_Witness ==
    /\ merge_call.op = "merge" /\ ~merge_call.raised
    /\ Len(merge_call.hand_boxes) = 2
    /\ merge_call.hand_boxes[1] = <<0, 2, 1, 3>>
    /\ merge_call.hand_boxes[2] = <<2, 0, 3, 1>>
    /\ merge_call.result = <<0, 0, 5, 5>>

\* the step is a pass of frame in for session s that one of the two paths
\* with a window served
WindowPass(s, in) ==
    /\ SubmitFrame(s, in)
    /\ ~last'.result.raised
    /\ last'.trace.legacy_run \/ "recognition" \in last'.trace.invoked

\* C33 as stated: while the window of a session fills, the pass answers
\* collecting with the fill percentage of the window as progress, and a pass
\* answers ready only on a full window, so that after a clearing pass no
\* ready follows before N further vectors were appended
C33_StatusSequence ==
    [][\A s \in BufferSessions : \A in \in NumberedFrames(s) :
          WindowPass(s, in) =>
              /\ ~is_ready(FrameBufferAppend(Before(s), in.kp)) =>
                    /\ last'.result.status = "collecting"
                    /\ last'.result.progress =
                          FillPercent(FrameBufferAppend(Before(s), in.kp))
              /\ last'.result.status = "ready" =>
                    is_ready(FrameBufferAppend(Before(s), in.kp))
      ]_vars

\* C33: the recognition module appended to a window that is still filling
\* and the pass answered low_confidence, with no progress
C33_FillingLowConfidence ==
    /\ Predicted /\ ~Res.raised
    /\ "recognition" \in Tr.invoked /\ ~Tr.legacy_run
    /\ last.session \in DOMAIN buffers
    /\ buffers[last.session] = <<frame_no>>
    /\ ~is_ready(buffers[last.session])
    /\ Res.status = "low_confidence" /\ Res.progress = 0

====
